---- MODULE Spec2Model ----
(***************************************************************************)
(* A model of the Quick Move plugin (obsidian-move-commands).             *)
(*                                                                         *)
(* Strings of the program are sequences of one-character strings, so that *)
(* lastIndexOf, indexOf, substring and the template literals of the       *)
(* source are computed as the source computes them.  The vault is the     *)
(* host's: files have an identity (the TFile object a command holds), a   *)
(* path and a content; folders are paths.                                 *)
(***************************************************************************)
EXTENDS Integers, Sequences, FiniteSets, TLC

(***************************************************************************)
(* Bounds of the model.                                                    *)
(***************************************************************************)
MaxNameLen == 4
MaxApply == 3
MaxInitFiles == 2
MaxTasks == 2
MaxActions == 2
MaxDupRuns == 3
MaxRow == 2
MaxPending == 2
MaxSavedMappings == 2

(***************************************************************************)
(* Program constants.                                                      *)
(***************************************************************************)
Radix == 36
MsPerSecond == 1000
DecimalBase == 10

\* The digits of Number.prototype.toString(36), by value.
Digits36 ==
  << "0", "1", "2", "3", "4", "5", "6", "7", "8", "9",
     "a", "b", "c", "d", "e", "f", "g", "h", "i", "j", "k", "l", "m",
     "n", "o", "p", "q", "r", "s", "t", "u", "v", "w", "x", "y", "z" >>

\* Values Date.now() takes in the model (milliseconds): two instants of the
\* same second, seconds with one, two and three base-36 digits.
ClockSamples == {0, 999, 1000, 36000, 36999, 1298000}

(***************************************************************************)
(* JavaScript string primitives, on sequences of characters.               *)
(***************************************************************************)
Min(a, b) == IF a < b THEN a ELSE b
Max(a, b) == IF a < b THEN b ELSE a
Clamp(i, n) == Max(0, Min(i, n))

\* String.prototype.substring(start, end): indices are 0-based, clamped to
\* [0, length] and swapped when start > end.
Substring(s, start, end) ==
  LET a == Clamp(start, Len(s))
      b == Clamp(end, Len(s))
  IN  SubSeq(s, Min(a, b) + 1, Max(a, b))

\* String.prototype.substring(start).
SubstringFrom(s, start) == Substring(s, start, Len(s))

\* String.prototype.indexOf(c): first 0-based index of c, -1 when absent.
IndexOf(s, c) ==
  IF \E i \in 1..Len(s) : s[i] = c
  THEN (CHOOSE i \in 1..Len(s) : s[i] = c /\ \A j \in 1..(i - 1) : s[j] # c) - 1
  ELSE -1

\* String.prototype.lastIndexOf(c): last 0-based index of c, -1 when absent.
LastIndexOf(s, c) ==
  IF \E i \in 1..Len(s) : s[i] = c
  THEN (CHOOSE i \in 1..Len(s) : s[i] = c /\ \A j \in (i + 1)..Len(s) : s[j] # c) - 1
  ELSE -1

\* a || b on strings: the empty string is falsy.
OrElse(a, b) == IF a = << >> THEN b ELSE a

\* split('').reverse().join('')
Reverse(s) == [i \in 1..Len(s) |-> s[Len(s) + 1 - i]]

\* Number.prototype.toString(radix) of a non-negative integer.
RECURSIVE ToStringRadix(_, _)
ToStringRadix(n, radix) ==
  IF n < radix
  THEN << Digits36[n + 1] >>
  ELSE ToStringRadix(n \div radix, radix) \o << Digits36[(n % radix) + 1] >>

\* `${counter}`: the decimal digits of a non-negative integer.
Itoa(n) == ToStringRadix(n, DecimalBase)

(***************************************************************************)
(* processFilenameWithPrefix                                               *)
(***************************************************************************)
Cepoch_NotReversed(nowMs) == ToStringRadix(nowMs \div MsPerSecond, Radix)

\* Math.floor(Date.now() / 1000).toString(36).split('').reverse().join('')
Cepoch(nowMs) == Reverse(ToStringRadix(nowMs \div MsPerSecond, Radix))

\* The old prefix is the text up to and including the first "_", when that
\* "_" is not the first character.
StripPrefix_LastUnderscore(nameWithoutExt) ==
  LET underscoreIndex == LastIndexOf(nameWithoutExt, "_")
  IN  IF underscoreIndex > 0
      THEN SubstringFrom(nameWithoutExt, underscoreIndex + 1)
      ELSE nameWithoutExt

StripPrefix_Never(nameWithoutExt) == nameWithoutExt

StripPrefix_SkipShort(nameWithoutExt) ==
  LET underscoreIndex == IndexOf(nameWithoutExt, "_")
  IN  IF underscoreIndex > 1
      THEN SubstringFrom(nameWithoutExt, underscoreIndex + 1)
      ELSE nameWithoutExt

StripPrefix(nameWithoutExt) ==
  LET underscoreIndex == IndexOf(nameWithoutExt, "_")
  IN  IF underscoreIndex > 0
      THEN SubstringFrom(nameWithoutExt, underscoreIndex + 1)
      ELSE nameWithoutExt

processFilenameWithPrefix(originalName, addPrefix, nowMs) ==
  IF ~addPrefix
  THEN originalName
  ELSE LET cepoch == Cepoch(nowMs)
           lastDotIndex == LastIndexOf(originalName, ".")
           extension == IF lastDotIndex > 0
                        THEN SubstringFrom(originalName, lastDotIndex)
                        ELSE << >>
           nameWithoutExt == IF lastDotIndex > 0
                             THEN Substring(originalName, 0, lastDotIndex)
                             ELSE originalName
           baseName == StripPrefix(nameWithoutExt)
       IN  cepoch \o << "_" >> \o baseName \o extension

(***************************************************************************)
(* Paths and the conflict-resolving destination of duplicateFileToFolder.  *)
(***************************************************************************)
JoinPath_AlwaysSeparator(targetFolder, fileName) ==
  targetFolder \o << "/" >> \o fileName

\* targetFolder ? `${targetFolder}/${fileName}` : fileName
JoinPath(targetFolder, fileName) ==
  IF targetFolder # << >>
  THEN targetFolder \o << "/" >> \o fileName
  ELSE fileName

\* TFile.name: the last segment of the file's path.
NameOfPath(path) == SubstringFrom(path, LastIndexOf(path, "/") + 1)

\* processedFileName.substring(0, processedFileName.lastIndexOf(".")) || processedFileName
SplitBaseName(processedFileName) ==
  OrElse(Substring(processedFileName, 0, LastIndexOf(processedFileName, ".")),
         processedFileName)

\* processedFileName.substring(processedFileName.lastIndexOf(".")) || ""
SplitExtension(processedFileName) ==
  OrElse(SubstringFrom(processedFileName, LastIndexOf(processedFileName, ".")),
         << >>)

NumberedName_RepeatsCandidates(baseName, counter, extension) ==
  baseName \o << " " >> \o Itoa((counter + 1) \div 2) \o extension

\* `${baseName} ${counter}${extension}`
NumberedName(baseName, counter, extension) ==
  baseName \o << " " >> \o Itoa(counter) \o extension

\* The while loop of duplicateFileToFolder, entered with newPath and counter:
\* the path it leaves with, the file name that path was built from, and the
\* value of counter at the exit.
RECURSIVE ConflictLoop(_, _, _, _, _, _, _)
ConflictLoop(items, targetFolder, baseName, extension, newPath, name, counter) ==
  IF newPath \in items
  THEN LET numberedName == NumberedName(baseName, counter, extension)
       IN  ConflictLoop(items, targetFolder, baseName, extension,
                        JoinPath(targetFolder, numberedName), numberedName,
                        counter + 1)
  ELSE [path |-> newPath, name |-> name, counter |-> counter]

FreeDestination_NoCheck(items, targetFolder, processedFileName) ==
  [path |-> JoinPath(targetFolder, processedFileName),
   name |-> processedFileName, counter |-> 1]

FreeDestination_CounterFromZero(items, targetFolder, processedFileName) ==
  ConflictLoop(items, targetFolder, SplitBaseName(processedFileName),
               SplitExtension(processedFileName),
               JoinPath(targetFolder, processedFileName), processedFileName, 0)

\* Lines 339-357: the destination duplicateFileToFolder creates the copy at.
FreeDestination(items, targetFolder, processedFileName) ==
  ConflictLoop(items, targetFolder, SplitBaseName(processedFileName),
               SplitExtension(processedFileName),
               JoinPath(targetFolder, processedFileName), processedFileName, 1)

(***************************************************************************)
(* Settings.                                                               *)
(***************************************************************************)
\* DEFAULT_SETTINGS.folderMappings
DEFAULT_SETTINGS ==
  << [id |-> << "archive" >>,
      folderPath |-> << "A", "r", "c", "h", "i", "v", "e" >>,
      displayName |-> "Archive",
      addCepochPrefix |-> FALSE, copyInsteadOfMove |-> FALSE],
     [id |-> << "inbox" >>,
      folderPath |-> << "I", "n", "b", "o", "x" >>,
      displayName |-> "Inbox",
      addCepochPrefix |-> FALSE, copyInsteadOfMove |-> FALSE],
     [id |-> << "projects" >>,
      folderPath |-> << "P", "r", "o", "j", "e", "c", "t", "s" >>,
      displayName |-> "Projects",
      addCepochPrefix |-> FALSE, copyInsteadOfMove |-> FALSE],
     [id |-> << "daily-notes" >>,
      folderPath |-> << "D", "a", "i", "l", "y", " ", "N", "o", "t", "e", "s" >>,
      displayName |-> "Daily Notes",
      addCepochPrefix |-> FALSE, copyInsteadOfMove |-> FALSE],
     [id |-> << "templates" >>,
      folderPath |-> << "T", "e", "m", "p", "l", "a", "t", "e", "s" >>,
      displayName |-> "Templates",
      addCepochPrefix |-> FALSE, copyInsteadOfMove |-> FALSE],
     [id |-> << "resources" >>,
      folderPath |-> << "R", "e", "s", "o", "u", "r", "c", "e", "s" >>,
      displayName |-> "Resources",
      addCepochPrefix |-> FALSE, copyInsteadOfMove |-> FALSE] >>

\* `folder-${Date.now()}`: the id of a mapping is a sequence of tokens, the
\* literal part of the template being one token.
NewMappingId(nowMs) == << "folder-" >> \o Itoa(nowMs)

\* The mapping the Add Folder button pushes.
NewMapping(nowMs) ==
  [id |-> NewMappingId(nowMs), folderPath |-> << >>, displayName |-> "",
   addCepochPrefix |-> FALSE, copyInsteadOfMove |-> FALSE]

(***************************************************************************)
(* State.                                                                  *)
(***************************************************************************)
VARIABLES
  now,            \* Date.now(), in milliseconds
  files,          \* the vault's files by identity: << [path, content] >>
  folders,        \* the vault's folders: a set of paths
  active,         \* workspace.getActiveFile(): a file identity, 0 for null,
                  \* NotAFile for an item that is not a TFile
  mobj,           \* the FolderMapping objects ever made, by identity
  folderMappings, \* settings.folderMappings: identities of mapping objects
  ui,             \* the settings tab: [open, rows: the mappings display() drew,
                  \* clicked: the mapping of the row whose Delete button was
                  \* clicked last, 0 for none]
  commands,       \* app.commands: command id "move-to-<id>" -> mapping object
  pending,        \* saveSettings calls awaiting saveData:
                  \* [plain, redisplay: those of a Delete handler, display:
                  \* the Delete handlers past their save, before display()]
  task,           \* the move and duplicate commands in flight
  notice,         \* the last Notice shown
  lastDest,       \* the last destination path a command computed, and the
                  \* number n of destinations computed so far
  dupLog,         \* the destinations duplicateFileToFolder asked to create
  host,           \* the last host call of a command that completed:
                  \* [tk, call, threw: it raised an error]
  console,        \* the last message console.error was called with
  invoked,        \* the id of the last command the user ran
  selected,       \* what the user picked in the modal of the last command:
                  \* [kind: "root" or "mapping" for an entry of a menu, "name"
                  \* for a typed folder name, mapping: the mapping object
                  \* the entry was built from]
  data,           \* the plugin's saved data, what loadData() returns
  modal,          \* the modal that is open: [kind: "none", "move", "duplicate"
                  \* or "newFolder", entries: the folders it was built with]
  budget,         \* the commands and settings edits the user has made so far
  pf              \* the prefix transform applied repeatedly to one name:
                  \* [orig: the first input, log: the applications so far]

vaultVars == << files, folders, active >>
settingsVars == << mobj, folderMappings, ui, commands, pending >>
commandVars == << task, notice, lastDest, dupLog >>
logVars == << host, console, invoked, selected, data >>
vars == << now, files, folders, active, mobj, folderMappings, ui, commands,
           pending, task, notice, lastDest, dupLog, host, console, invoked, selected,
           data, modal, budget, pf >>

TaskIds == 1..MaxTasks

IdleTask ==
  [pc |-> "idle", kind |-> "none", folder |-> << >>, addPrefix |-> FALSE,
   file |-> 0, content |-> 0, procName |-> << >>, fileName |-> << >>,
   newPath |-> << >>, counter |-> 0, error |-> << >>]

NoNotice == [kind |-> "none", path |-> << >>]
NoHostCall == [tk |-> 0, call |-> "none", threw |-> FALSE]
NoCommand == << >>

\* No entry of the quick move menu was chosen: the command showed no menu.
NoEntry == [kind |-> "none", mapping |-> 0]

\* No modal is open.
NoModal == [kind |-> "none", entries |-> << >>]

\* loadData() when nothing was ever saved: null.
NoData == [isNull |-> TRUE, keys |-> {}, folderMappings |-> << >>]

\* What saveData(this.settings) stores: an object with the key folderMappings,
\* the mappings by value, in order.
SavedSettings(objects, mappings) ==
  [isNull |-> FALSE, keys |-> {"folderMappings"},
   folderMappings |-> [i \in 1..Len(mappings) |-> objects[mappings[i]]]]
NoDest == [op |-> "none", folder |-> << >>, fileName |-> << >>, path |-> << >>,
           n |-> 0]

FilePaths(fs) == { fs[i].path : i \in 1..Len(fs) }

\* vault.getAbstractFileByPath(p) is not null exactly for the paths in here.
Items(fs, fds) == FilePaths(fs) \cup fds

\* The folders on the way to a path, the path's own last segment excluded.
ParentFolders(path) ==
  { SubSeq(path, 1, i - 1) : i \in { j \in 1..Len(path) : path[j] = "/" } }

(***************************************************************************)
(* Initial states: the plugin has loaded with no saved data, so that the   *)
(* settings are DEFAULT_SETTINGS and their commands are registered; the    *)
(* vault holds up to MaxInitFiles of the files of InitPaths.               *)
(***************************************************************************)
InitPaths ==
  << << "a", ".", "m", "d" >>,
     << "R" >>,
     << "A", "r", "c", "h", "i", "v", "e", "/", "a", ".", "m", "d" >>,
     << "A", "r", "c", "h", "i", "v", "e", "/", "a", " ", "1", ".", "m", "d" >>,
     << "A", "r", "c", "h", "i", "v", "e", "/", "b", "/", "a", ".", "m", "d" >> >>

\* The elements of a set of numbers in increasing order.
RECURSIVE SortedSeq(_)
SortedSeq(S) ==
  IF S = {} THEN << >>
  ELSE LET m == CHOOSE x \in S : \A y \in S : x <= y
       IN  << m >> \o SortedSeq(S \ {m})

InitVault(chosen) ==
  LET order == SortedSeq(chosen)
  IN  [i \in 1..Len(order) |-> [path |-> InitPaths[order[i]], content |-> order[i]]]

InitSystem ==
  /\ \E chosen \in SUBSET (1..Len(InitPaths)) :
       /\ chosen # {}
       /\ Cardinality(chosen) <= MaxInitFiles
       /\ files = InitVault(chosen)
       /\ folders = UNION { ParentFolders(InitPaths[i]) : i \in chosen }
  /\ active = 0
  /\ mobj = DEFAULT_SETTINGS
  /\ folderMappings = [i \in 1..Len(DEFAULT_SETTINGS) |-> i]
  /\ ui = [open |-> FALSE, rows |-> << >>, clicked |-> 0]
  /\ commands = [id \in { DEFAULT_SETTINGS[i].id : i \in 1..Len(DEFAULT_SETTINGS) } |->
                   CHOOSE i \in 1..Len(DEFAULT_SETTINGS) : DEFAULT_SETTINGS[i].id = id]
  /\ pending = [plain |-> 0, redisplay |-> 0, display |-> 0]
  /\ task = [tk \in TaskIds |-> IdleTask]
  /\ notice = NoNotice
  /\ lastDest = NoDest
  /\ dupLog = << >>
  /\ host = NoHostCall
  /\ console = "none"
  /\ invoked = NoCommand
  /\ selected = NoEntry
  /\ modal = NoModal
  /\ data = NoData
  /\ budget = 0

Init ==
  /\ InitSystem
  /\ now = 0
  /\ pf = [orig |-> << >>, log |-> << >>]

(***************************************************************************)
(* The environment: the clock and the user's choice of the active file.    *)
(***************************************************************************)
\* The values a call of Date.now() may return: the clock does not run
\* backwards.  now is the value the last call returned.
DateNow == { t \in ClockSamples : t >= now }

\* processFilenameWithPrefix calls Date.now() only when addPrefix is set.
PrefixClock(addPrefix) == IF addPrefix THEN DateNow ELSE {now}

\* Time passes.
Tick ==
  /\ \E t \in ClockSamples : t > now /\ now' = t
  /\ UNCHANGED << vaultVars, settingsVars, commandVars, logVars, modal, budget, pf >>

\* An active item that is no TFile: what getActiveFile() returns when the
\* test `activeFile instanceof TFile` of lines 324 and 387 fails.
NotAFile == -1

\* What getActiveFile() returns when a command starts: the user has any file
\* of the vault in front, or none, or an item that is not a file.
ActiveChoices == 0..Len(files) \cup {NotAFile}

\* The notice of the safety checks of lines 319-327 and 382-390 of a move or
\* a duplicate (kind): there is no active file, or the item is no file.
SafetyNotice(activeFile, kind) ==
  [kind |-> IF activeFile = NotAFile THEN "notAFile"
            ELSE IF kind = "move" THEN "noActiveMove" ELSE "noActiveDup",
   path |-> << >>]

\* One more command or settings edit of the user.
UserAction ==
  /\ budget < MaxActions
  /\ budget' = budget + 1

\* A command that starts takes the first slot no command in flight holds.
FreeTask ==
  IF \E tk \in TaskIds : task[tk].pc = "idle"
  THEN CHOOSE tk \in TaskIds :
         task[tk].pc = "idle" /\ \A other \in 1..(tk - 1) : task[other].pc # "idle"
  ELSE 0

(***************************************************************************)
(* moveCurrentFileToFolder and duplicateFileToFolder.  A command runs      *)
(* without interruption between two awaits; task[tk].pc names the host     *)
(* call a command is suspended at ("read", "create", "open", "rename",     *)
(* "createFolder").  When the host has completed the call, with its effect *)
(* on the vault, the command has yet to go on: pc is "readDone",           *)
(* "created", "opened", "renamed", or "readThrew", "createThrew",          *)
(* "openThrew", "renameThrew" when the call was rejected; "ensureFolder"   *)
(* when ensureFolderExists has returned and "ensureFolderThrew" when it    *)
(* has thrown.  Commands in that state go on in any order.                 *)
(***************************************************************************)
MoveAfterFolder_NoConflictCheck(tk, t, fds) ==
  \E nowMs \in PrefixClock(t.addPrefix) :
  LET newFileName ==
        processFilenameWithPrefix(NameOfPath(files[t.file].path), t.addPrefix, nowMs)
      newPath == JoinPath(t.folder, newFileName)
  IN  /\ now' = nowMs
      /\ lastDest' = [op |-> "move", folder |-> t.folder,
                      fileName |-> newFileName, path |-> newPath,
                      n |-> lastDest.n + 1]
      /\ notice' = notice
      /\ task' = [task EXCEPT ![tk] =
                    [t EXCEPT !.pc = "rename", !.procName = newFileName,
                              !.fileName = newFileName, !.newPath = newPath]]
      /\ UNCHANGED dupLog

MoveAfterFolder_YieldsAfterCheck(tk, t, fds) ==
  \E nowMs \in PrefixClock(t.addPrefix) :
  LET newFileName ==
        processFilenameWithPrefix(NameOfPath(files[t.file].path), t.addPrefix, nowMs)
      newPath == JoinPath(t.folder, newFileName)
  IN  /\ now' = nowMs
      /\ lastDest' = [op |-> "move", folder |-> t.folder,
                      fileName |-> newFileName, path |-> newPath,
                      n |-> lastDest.n + 1]
      /\ IF newPath \in Items(files, fds)
         THEN /\ notice' = [kind |-> "exists", path |-> newPath]
              /\ task' = [task EXCEPT ![tk] = IdleTask]
         ELSE /\ notice' = notice
              /\ task' = [task EXCEPT ![tk] =
                            [t EXCEPT !.pc = "checked", !.procName = newFileName,
                                      !.fileName = newFileName, !.newPath = newPath]]
      /\ UNCHANGED dupLog

\* Lines 396-411 of moveCurrentFileToFolder: what follows ensureFolderExists.
\* fds are the folders once ensureFolderExists is through.
MoveAfterFolder(tk, t, fds) ==
  \E nowMs \in PrefixClock(t.addPrefix) :
  LET newFileName ==
        processFilenameWithPrefix(NameOfPath(files[t.file].path), t.addPrefix, nowMs)
      newPath == JoinPath(t.folder, newFileName)
  IN  /\ now' = nowMs
      /\ lastDest' = [op |-> "move", folder |-> t.folder,
                      fileName |-> newFileName, path |-> newPath,
                      n |-> lastDest.n + 1]
      /\ IF newPath \in Items(files, fds)
         THEN /\ notice' = [kind |-> "exists", path |-> newPath]
              /\ task' = [task EXCEPT ![tk] = IdleTask]
         ELSE /\ notice' = notice
              /\ task' = [task EXCEPT ![tk] =
                            [t EXCEPT !.pc = "rename", !.procName = newFileName,
                                      !.fileName = newFileName, !.newPath = newPath]]
      /\ UNCHANGED dupLog

DupAfterFolder_YieldsBeforeRead(tk, t) ==
  /\ task' = [task EXCEPT ![tk] = [t EXCEPT !.pc = "beforeRead"]]
  /\ UNCHANGED << now, notice, lastDest, dupLog >>

\* Line 334 of duplicateFileToFolder: vault.read(activeFile) is awaited.
DupAfterFolder(tk, t) ==
  /\ task' = [task EXCEPT ![tk] = [t EXCEPT !.pc = "read"]]
  /\ UNCHANGED << now, notice, lastDest, dupLog >>

StartCommand_FolderBeforeCheck(tk, activeFile, kind, targetFolder, addPrefix) ==
  /\ tk = FreeTask
  /\ active' = activeFile
  /\ IF activeFile \in {0, NotAFile}
     THEN /\ notice' = SafetyNotice(activeFile, kind)
          /\ folders' = folders \cup ({targetFolder} \ {<< >>})
          /\ UNCHANGED << now, task, lastDest, dupLog >>
     ELSE LET t == [IdleTask EXCEPT !.kind = kind, !.folder = targetFolder,
                                    !.addPrefix = addPrefix, !.file = activeFile]
          IN  /\ UNCHANGED folders
              /\ IF targetFolder # << >> /\ targetFolder \notin Items(files, folders)
                 THEN /\ task' = [task EXCEPT ![tk] = [t EXCEPT !.pc = "createFolder"]]
                      /\ UNCHANGED << now, notice, lastDest, dupLog >>
                 ELSE /\ task' = [task EXCEPT ![tk] = [t EXCEPT !.pc = "ensureFolder"]]
                      /\ UNCHANGED << now, notice, lastDest, dupLog >>
  /\ UNCHANGED << files, settingsVars, host, console, data, pf >>

StartCommand_CreatesFolderUnchecked(tk, activeFile, kind, targetFolder, addPrefix) ==
  /\ tk = FreeTask
  /\ active' = activeFile
  /\ IF activeFile \in {0, NotAFile}
     THEN /\ notice' = SafetyNotice(activeFile, kind)
          /\ UNCHANGED << now, task, lastDest, dupLog >>
     ELSE LET t == [IdleTask EXCEPT !.kind = kind, !.folder = targetFolder,
                                    !.addPrefix = addPrefix, !.file = activeFile]
          IN  IF targetFolder # << >>
              THEN /\ task' = [task EXCEPT ![tk] = [t EXCEPT !.pc = "createFolder"]]
                   /\ UNCHANGED << now, notice, lastDest, dupLog >>
              ELSE /\ task' = [task EXCEPT ![tk] = [t EXCEPT !.pc = "ensureFolder"]]
                   /\ UNCHANGED << now, notice, lastDest, dupLog >>
  /\ UNCHANGED << files, folders, settingsVars, host, console, data, pf >>

\* Lines 379-394 and 316-331: the active file is looked up, then
\* ensureFolderExists is called and awaited.  It issues createFolder when the
\* target folder is not in the vault; else it returns at once, and the await
\* of its promise still yields: the command goes on in a later step.
StartCommand(tk, activeFile, kind, targetFolder, addPrefix) ==
  /\ tk = FreeTask
  /\ active' = activeFile
  /\ IF activeFile \in {0, NotAFile}
     THEN /\ notice' = SafetyNotice(activeFile, kind)
          /\ UNCHANGED << now, task, lastDest, dupLog >>
     ELSE LET t == [IdleTask EXCEPT !.kind = kind, !.folder = targetFolder,
                                    !.addPrefix = addPrefix, !.file = activeFile]
          IN  IF targetFolder # << >> /\ targetFolder \notin Items(files, folders)
              THEN /\ task' = [task EXCEPT ![tk] = [t EXCEPT !.pc = "createFolder"]]
                   /\ UNCHANGED << now, notice, lastDest, dupLog >>
              ELSE /\ task' = [task EXCEPT ![tk] = [t EXCEPT !.pc = "ensureFolder"]]
                   /\ UNCHANGED << now, notice, lastDest, dupLog >>
  /\ UNCHANGED << files, folders, settingsVars, host, console, data, pf >>

Caught_Rethrows(tk, t, message) ==
  /\ task' = [task EXCEPT ![tk] = [t EXCEPT !.pc = "rejected"]]
  /\ UNCHANGED << console, notice >>

\* The catch blocks of lines 368-371 and 415-419: the error is logged and a
\* notice carrying its message is shown; the command's promise resolves.
Caught(tk, t, message) ==
  /\ console' = IF t.kind = "move" THEN "Error moving file:"
                ELSE "Error duplicating file:"
  /\ notice' = [kind |-> IF t.kind = "move" THEN "errorMove" ELSE "errorDup",
                path |-> message]
  /\ task' = [task EXCEPT ![tk] = IdleTask]

\* vault.createFolder(path) completes: it throws when the path is taken by
\* now, and may throw for reasons of the host's, and ensureFolderExists
\* throws the error on (line 462).  Else ensureFolderExists returns.  Either
\* way the command that awaits it goes on in a later step.
HostCreateFolderDone(tk) ==
  LET t == task[tk]
  IN  /\ t.pc = "createFolder"
      /\ \E threw \in BOOLEAN :
           /\ t.folder \in Items(files, folders) => threw
           /\ host' = [tk |-> tk, call |-> "createFolder", threw |-> threw]
           /\ IF threw
              THEN /\ task' = [task EXCEPT ![tk] = [t EXCEPT !.pc = "ensureFolderThrew"]]
                   /\ UNCHANGED folders
              ELSE /\ folders' = folders \cup {t.folder} \cup ParentFolders(t.folder)
                   /\ task' = [task EXCEPT ![tk] = [t EXCEPT !.pc = "ensureFolder"]]
      /\ UNCHANGED << now, files, active, settingsVars, notice, console, lastDest,
                      dupLog, invoked, selected, modal, data, budget, pf >>

\* The await of ensureFolderExists (lines 331 and 394) resumes: the command
\* goes on to its destination (a move) or to vault.read (a duplicate).
EnsureFolderDone(tk) ==
  /\ task[tk].pc = "ensureFolder"
  /\ IF task[tk].kind = "move"
     THEN MoveAfterFolder(tk, task[tk], folders)
     ELSE DupAfterFolder(tk, task[tk])
  /\ UNCHANGED << vaultVars, settingsVars, logVars, modal, budget, pf >>

\* The await of ensureFolderExists resumes with the error createFolder
\* threw: the catch of the command runs.
EnsureFolderThrew(tk) ==
  /\ task[tk].pc = "ensureFolderThrew"
  /\ Caught(tk, task[tk], task[tk].folder)
  /\ UNCHANGED << now, vaultVars, settingsVars, lastDest, dupLog, host,
                  invoked, selected, modal, data, budget, pf >>

\* A host call the command tk awaits is rejected: the command goes on in its
\* catch block, in a later step, with the error (its message).
Rejected(tk, t, call, message) ==
  task' = [task EXCEPT ![tk] = [t EXCEPT !.pc = call \o "Threw", !.error = message]]

\* vault.read(activeFile) completes: the host may throw; else its promise
\* resolves with the content the file has now.  The command that awaits it
\* goes on in a later step.
HostReadDone(tk) ==
  LET t == task[tk]
  IN  /\ t.pc = "read"
      /\ \E threw \in BOOLEAN :
           /\ host' = [tk |-> tk, call |-> "read", threw |-> threw]
           /\ IF threw
              THEN Rejected(tk, t, "read", files[t.file].path)
              ELSE task' = [task EXCEPT ![tk] =
                              [t EXCEPT !.pc = "readDone",
                                        !.content = files[t.file].content]]
      /\ UNCHANGED << now, vaultVars, settingsVars, notice, console, lastDest,
                      dupLog, invoked, selected, modal, data, budget, pf >>

\* The await of vault.read (line 334) resumes: lines 336-360 run up to the
\* call of vault.create(newPath, content), with the vault as it is now.
ReadResumes(tk) ==
  /\ task[tk].pc = "readDone"
  /\ \E nowMs \in PrefixClock(task[tk].addPrefix) :
       LET t == task[tk]
           processedFileName ==
             processFilenameWithPrefix(NameOfPath(files[t.file].path),
                                       t.addPrefix, nowMs)
           dest == FreeDestination(Items(files, folders), t.folder,
                                   processedFileName)
       IN  /\ now' = nowMs
           /\ task' = [task EXCEPT ![tk] =
                         [t EXCEPT !.pc = "create",
                                   !.procName = processedFileName,
                                   !.fileName = dest.name,
                                   !.newPath = dest.path,
                                   !.counter = dest.counter]]
           /\ lastDest' = [op |-> "duplicate", folder |-> t.folder,
                           fileName |-> dest.name, path |-> dest.path,
                           n |-> lastDest.n + 1]
           /\ dupLog' = Append(dupLog,
                               [folder |-> t.folder, name |-> processedFileName,
                                counter |-> dest.counter - 1,
                                path |-> dest.path])
  /\ UNCHANGED << vaultVars, settingsVars, notice, logVars, modal, budget, pf >>

HostCreateDone_WritesNothing(tk) ==
  LET t == task[tk]
  IN  /\ t.pc = "create"
      /\ \E threw \in BOOLEAN :
           /\ t.newPath \in Items(files, folders) => threw
           /\ host' = [tk |-> tk, call |-> "create", threw |-> threw]
           /\ IF threw
              THEN /\ Rejected(tk, t, "create", t.newPath)
                   /\ UNCHANGED files
              ELSE /\ files' = Append(files, [path |-> t.newPath, content |-> 0])
                   /\ task' = [task EXCEPT ![tk] =
                                 [t EXCEPT !.pc = "created", !.file = Len(files) + 1]]
      /\ UNCHANGED << now, folders, active, settingsVars, notice, console,
                      lastDest, dupLog, invoked, selected, modal, data, budget, pf >>

\* vault.create(newPath, content) completes: it throws when the path is taken
\* by now, and may throw for reasons of the host's; else the file is in the
\* vault and the promise resolves with it.  The command that awaits it goes
\* on in a later step.
HostCreateDone(tk) ==
  LET t == task[tk]
  IN  /\ t.pc = "create"
      /\ \E threw \in BOOLEAN :
           /\ t.newPath \in Items(files, folders) => threw
           /\ host' = [tk |-> tk, call |-> "create", threw |-> threw]
           /\ IF threw
              THEN /\ Rejected(tk, t, "create", t.newPath)
                   /\ UNCHANGED files
              ELSE /\ files' = Append(files, [path |-> t.newPath, content |-> t.content])
                   /\ task' = [task EXCEPT ![tk] =
                                 [t EXCEPT !.pc = "created", !.file = Len(files) + 1]]
      /\ UNCHANGED << now, folders, active, settingsVars, notice, console,
                      lastDest, dupLog, invoked, selected, modal, data, budget, pf >>

\* The await of vault.create (line 360) resumes: openFile(newFile) is called
\* and awaited (line 363).
CreateResumes(tk) ==
  /\ task[tk].pc = "created"
  /\ task' = [task EXCEPT ![tk] = [task[tk] EXCEPT !.pc = "open"]]
  /\ UNCHANGED << now, vaultVars, settingsVars, notice, lastDest, dupLog,
                  logVars, modal, budget, pf >>

\* workspace.getLeaf('tab').openFile(newFile) completes: the host may throw;
\* else the copy is the active file.  The command that awaits it goes on in
\* a later step.
HostOpenDone(tk) ==
  LET t == task[tk]
  IN  /\ t.pc = "open"
      /\ \E threw \in BOOLEAN :
           /\ host' = [tk |-> tk, call |-> "open", threw |-> threw]
           /\ IF threw
              THEN /\ Rejected(tk, t, "open", t.newPath)
                   /\ UNCHANGED active
              ELSE /\ active' = t.file
                   /\ task' = [task EXCEPT ![tk] = [t EXCEPT !.pc = "opened"]]
      /\ UNCHANGED << now, files, folders, settingsVars, notice, console,
                      lastDest, dupLog, invoked, selected, modal, data, budget, pf >>

\* The await of openFile (line 363) resumes: the notice of success is shown
\* (lines 365-367) and the command is over.
OpenResumes(tk) ==
  /\ task[tk].pc = "opened"
  /\ notice' = [kind |-> "duplicated", path |-> task[tk].folder]
  /\ task' = [task EXCEPT ![tk] = IdleTask]
  /\ UNCHANGED << now, vaultVars, settingsVars, lastDest, dupLog, logVars,
                  modal, budget, pf >>

HostRenameDone_LeavesOldPath(tk) ==
  LET t == task[tk]
  IN  /\ t.pc = "rename"
      /\ \E threw \in BOOLEAN :
           /\ t.newPath \in Items(files, folders) => threw
           /\ host' = [tk |-> tk, call |-> "rename", threw |-> threw]
           /\ IF threw
              THEN /\ Rejected(tk, t, "rename", t.newPath)
                   /\ UNCHANGED files
              ELSE /\ files' = Append(files, [path |-> t.newPath,
                                              content |-> files[t.file].content])
                   /\ task' = [task EXCEPT ![tk] = [t EXCEPT !.pc = "renamed"]]
      /\ UNCHANGED << now, folders, active, settingsVars, notice, console,
                      lastDest, dupLog, invoked, selected, modal, data, budget, pf >>

\* The content of a note once the host has rewritten the links in it that
\* point to a file that was moved: another text, of the same note.
LinksUpdated(content) == content + Len(InitPaths)

\* The file of InitPaths a content is the text of, links rewritten or not.
NoteOf(content) == ((content - 1) % Len(InitPaths)) + 1

\* The files after fileManager.renameFile(file, newPath): the file has the
\* new path, and the host has rewritten the links to it in the notes that
\* have such links (linking), as the user's preferences say.
Renamed(fs, file, newPath, linking) ==
  [i \in 1..Len(fs) |->
     IF i = file THEN [fs[i] EXCEPT !.path = newPath]
     ELSE IF i \in linking THEN [fs[i] EXCEPT !.content = LinksUpdated(@)]
     ELSE fs[i]]

\* fileManager.renameFile(activeFile, newPath) completes: it throws when the
\* path is taken by now, and may throw for reasons of the host's; else the
\* file has the new path, and the links to it in other notes are updated.
\* The command that awaits it goes on in a later step.
HostRenameDone(tk) ==
  LET t == task[tk]
  IN  /\ t.pc = "rename"
      /\ \E threw \in BOOLEAN :
           /\ t.newPath \in Items(files, folders) => threw
           /\ host' = [tk |-> tk, call |-> "rename", threw |-> threw]
           /\ IF threw
              THEN /\ Rejected(tk, t, "rename", t.newPath)
                   /\ UNCHANGED files
              ELSE /\ \E linking \in SUBSET (1..Len(files) \ {t.file}) :
                        files' = Renamed(files, t.file, t.newPath, linking)
                   /\ task' = [task EXCEPT ![tk] = [t EXCEPT !.pc = "renamed"]]
      /\ UNCHANGED << now, folders, active, settingsVars, notice, console,
                      lastDest, dupLog, invoked, selected, modal, data, budget, pf >>

\* The await of renameFile (line 411) resumes: the notice of success is
\* shown (lines 412-414) and the command is over.
RenameResumes(tk) ==
  /\ task[tk].pc = "renamed"
  /\ notice' = [kind |-> "moved", path |-> task[tk].folder]
  /\ task' = [task EXCEPT ![tk] = IdleTask]
  /\ UNCHANGED << now, vaultVars, settingsVars, lastDest, dupLog, logVars,
                  modal, budget, pf >>

\* The states of a command whose awaited host call was rejected.
ThrewPcs == {"readThrew", "createThrew", "openThrew", "renameThrew"}

\* An await of vault.read, vault.create, openFile or renameFile resumes with
\* the error the host threw: the catch of the command runs.
AwaitThrew(tk) ==
  /\ task[tk].pc \in ThrewPcs
  /\ Caught(tk, task[tk], task[tk].error)
  /\ UNCHANGED << now, vaultVars, settingsVars, lastDest, dupLog, host,
                  invoked, selected, modal, data, budget, pf >>

(***************************************************************************)
(* The commands the plugin registers.                                      *)
(***************************************************************************)
\* The rows of a list of mappings the user acts on: the first MaxRow ones
\* and those past the defaults, which the Add Folder button made.
UserRows(mappings) ==
  { k \in 1..Len(mappings) : k <= MaxRow \/ k > Len(DEFAULT_SETTINGS) }

\* The commands "move-to-<id>" the user invokes: those of the mappings of the
\* first MaxRow defaults and of the mappings the Add Folder button made.
InvokedCommands ==
  { id \in DOMAIN commands :
      commands[id] <= MaxRow \/ commands[id] > Len(DEFAULT_SETTINGS) }

\* The id a mapping's command is registered under: `move-to-${mapping.id}`.
CommandId(mappingId) == << "move-to-" >> \o mappingId

MappingCommand_AlwaysMoves(tk) ==
  /\ UserAction
  /\ \E activeFile \in ActiveChoices, id \in InvokedCommands :
    LET mapping == mobj[commands[id]]
    IN  /\ invoked' = CommandId(id)
        /\ selected' = NoEntry
        /\ UNCHANGED modal
        /\ StartCommand(tk, activeFile, "move", mapping.folderPath,
                        mapping.addCepochPrefix)

\* registerFolderCommands, the callback of "move-to-<id>": it reads the
\* mapping object it was registered with when it is invoked.
MappingCommand(tk) ==
  /\ UserAction
  /\ \E activeFile \in ActiveChoices, id \in InvokedCommands :
    LET mapping == mobj[commands[id]]
    IN  /\ invoked' = CommandId(id)
        /\ selected' = NoEntry
        /\ UNCHANGED modal
        /\ IF mapping.copyInsteadOfMove
           THEN StartCommand(tk, activeFile, "duplicate", mapping.folderPath,
                             mapping.addCepochPrefix)
           ELSE StartCommand(tk, activeFile, "move", mapping.folderPath,
                             mapping.addCepochPrefix)

\* addUtilityCommands, "move-to-root": moveCurrentFileToFolder("").
MoveToRootCommand(tk) ==
  /\ UserAction
  /\ invoked' = << "move-to-root" >>
  /\ selected' = NoEntry
  /\ UNCHANGED modal
  /\ \E activeFile \in ActiveChoices : StartCommand(tk, activeFile, "move", << >>, FALSE)

\* folderMappings.find((m) => m.folderPath === selectedFolder.path): the
\* position of the first mapping with the path, 0 when there is none.
FindByPath(selectedPath) ==
  IF \E j \in 1..Len(folderMappings) : mobj[folderMappings[j]].folderPath = selectedPath
  THEN CHOOSE j \in 1..Len(folderMappings) :
         /\ mobj[folderMappings[j]].folderPath = selectedPath
         /\ \A k \in 1..(j - 1) : mobj[folderMappings[k]].folderPath # selectedPath
  ELSE 0

\* The folders array a menu is built with (lines 194-200 and 235-238): one
\* entry per mapping with the mapping's path as it is then, and for the move
\* menu "Vault Root" with the path "", put in front.
MenuEntries(withRoot) ==
  (IF withRoot THEN << [kind |-> "root", mapping |-> 0, path |-> << >>] >> ELSE << >>)
  \o [i \in 1..Len(folderMappings) |->
        [kind |-> "mapping", mapping |-> folderMappings[i],
         path |-> mobj[folderMappings[i]].folderPath]]

\* The entries of a menu the user clicks on: "Vault Root" and those of the
\* rows of UserRows.
UserEntries(entries) ==
  { k \in 1..Len(entries) :
      \/ entries[k].kind = "root"
      \/ LET row == IF entries[1].kind = "root" THEN k - 1 ELSE k
         IN  row <= MaxRow \/ row > Len(DEFAULT_SETTINGS) }

\* A command that opens a modal: getActiveFile(), the notice when there is
\* no active item, else modal.open(), also for an item that is not a file:
\* lines 187-191, 228-232 and 291-295 test for null only.  The user closes a
\* modal before the next one is opened.
OpensModal(kind, entries, noFileNotice) ==
  /\ UserAction
  /\ modal.kind = "none"
  /\ selected' = NoEntry
  /\ \E activeFile \in ActiveChoices :
       /\ active' = activeFile
       /\ IF activeFile = 0
          THEN /\ notice' = [kind |-> noFileNotice, path |-> << >>]
               /\ UNCHANGED modal
          ELSE /\ modal' = [kind |-> kind, entries |-> entries]
               /\ UNCHANGED notice
  /\ UNCHANGED << now, files, folders, settingsVars, task, lastDest, dupLog,
                  host, console, data, pf >>

\* showMoveMenu, lines 186-205 and 220.
MoveMenuCommand ==
  /\ invoked' = << "show-move-menu" >>
  /\ OpensModal("move", MenuEntries(TRUE), "noActiveMove")

\* The click on an entry of the move menu, the callback of lines 206-218, in
\* a later turn: the flags are those of the first mapping that has the path
\* of the entry now, false when no mapping has it; the active file is looked
\* up again by the command that is started.
MoveMenuChoose(tk) ==
  /\ modal.kind = "move"
  /\ modal' = NoModal
  /\ \E k \in UserEntries(modal.entries), activeFile \in ActiveChoices :
       LET selectedFolder == modal.entries[k]
           found == FindByPath(selectedFolder.path)
           addPrefix == IF found = 0 THEN FALSE
                        ELSE mobj[folderMappings[found]].addCepochPrefix
           copyInstead == IF found = 0 THEN FALSE
                          ELSE mobj[folderMappings[found]].copyInsteadOfMove
       IN  /\ selected' = [kind |-> selectedFolder.kind, mapping |-> selectedFolder.mapping]
           /\ IF copyInstead
              THEN StartCommand(tk, activeFile, "duplicate", selectedFolder.path, addPrefix)
              ELSE StartCommand(tk, activeFile, "move", selectedFolder.path, addPrefix)
  /\ UNCHANGED << invoked, budget >>

\* showDuplicateMenu, lines 227-243 and 253.
DuplicateMenuCommand ==
  /\ invoked' = << "show-duplicate-menu" >>
  /\ OpensModal("duplicate", MenuEntries(FALSE), "noActiveDup")

\* The click on an entry of the duplicate menu, the callback of lines
\* 244-251: the prefix flag is that of the first mapping that has the path of
\* the entry now.
DuplicateMenuChoose(tk) ==
  /\ modal.kind = "duplicate"
  /\ modal' = NoModal
  /\ \E k \in UserEntries(modal.entries), activeFile \in ActiveChoices :
       LET selectedFolder == modal.entries[k]
           found == FindByPath(selectedFolder.path)
           addPrefix == IF found = 0 THEN FALSE
                        ELSE mobj[folderMappings[found]].addCepochPrefix
       IN  /\ selected' = [kind |-> selectedFolder.kind, mapping |-> selectedFolder.mapping]
           /\ StartCommand(tk, activeFile, "duplicate", selectedFolder.path, addPrefix)
  /\ UNCHANGED << invoked, budget >>

\* Escape or Cancel in a modal: it closes and no callback runs.  The file in
\* front may be another one by then.
ModalClose ==
  /\ modal.kind # "none"
  /\ modal' = NoModal
  /\ \E activeFile \in ActiveChoices : active' = activeFile
  /\ UNCHANGED << now, files, folders, settingsVars, commandVars, host, console,
                  invoked, selected, data, budget, pf >>

GrandParentPath_ParentItself(currentPath) ==
  Substring(currentPath, 0, LastIndexOf(currentPath, "/"))

\* Lines 268-276 of moveToParentFolder: the path of the folder above the
\* folder of the file, "" when there is none.
GrandParentPath(currentPath) ==
  LET parentPath == Substring(currentPath, 0, LastIndexOf(currentPath, "/"))
  IN  Substring(parentPath, 0, LastIndexOf(parentPath, "/"))

\* addUtilityCommands, "move-to-parent": moveToParentFolder.
MoveToParentCommand(tk) ==
  /\ UserAction
  /\ invoked' = << "move-to-parent" >>
  /\ selected' = NoEntry
  /\ UNCHANGED modal
  /\ \E activeFile \in ActiveChoices :
       StartCommand(tk, activeFile, "move",
                    IF activeFile \in {0, NotAFile} THEN << >>
                    ELSE GrandParentPath(files[activeFile].path),
                    FALSE)

\* The characters String.prototype.trim removes, white space and line
\* terminators: tab, line feed, line tabulation (U+000B), form feed, carriage
\* return, space, no-break space (U+00A0), ogham space mark (U+1680) and
\* zero width no-break space (U+FEFF), written in this order.  The others
\* (U+2000 to U+200A, U+2028, U+2029, U+202F, U+205F, U+3000) cannot be
\* written in a string of the module and are in no string of the model.
WhiteSpace ==
  { "\t", "\n", "", "\f", "\r", " ", " ", " ", "﻿" }

\* String.prototype.trimStart: every leading character of WhiteSpace goes.
RECURSIVE TrimStart(_)
TrimStart(s) ==
  IF s # << >> /\ Head(s) \in WhiteSpace THEN TrimStart(Tail(s)) ELSE s

\* String.prototype.trim.
Trim(s) == Reverse(TrimStart(Reverse(TrimStart(s))))

\* What the user types into the modal of moveToNewFolder: blank names, and
\* names with white space around them.
NewFolderInputs ==
  { << " " >>, << "\t" >>, << "N", " " >>, << "\t", "N" >>, << "\n", "N", " " >> }

\* addUtilityCommands, "move-to-new-folder": moveToNewFolder, lines 290-301
\* and 308.
MoveToNewFolderCommand ==
  /\ invoked' = << "move-to-new-folder" >>
  /\ OpensModal("newFolder", << >>, "noActiveMove")

\* Create or Enter in the modal of moveToNewFolder, the callback of lines
\* 302-306, in a later turn: a name of nothing but whitespace does nothing.
NewFolderSubmit(tk) ==
  /\ modal.kind = "newFolder"
  /\ modal' = NoModal
  /\ \E activeFile \in ActiveChoices, folderName \in NewFolderInputs :
       IF Trim(folderName) = << >>
       THEN /\ active' = activeFile
            /\ UNCHANGED << now, files, folders, settingsVars, commandVars,
                            host, console, selected, data, pf >>
       ELSE /\ selected' = [kind |-> "name", mapping |-> 0]
            /\ StartCommand(tk, activeFile, "move", Trim(folderName), FALSE)
  /\ UNCHANGED << invoked, budget >>

(***************************************************************************)
(* The settings tab.                                                       *)
(***************************************************************************)
\* registerFolderCommands: the command of every current mapping is removed,
\* then one is added per mapping, in order; a later mapping with the id of an
\* earlier one replaces its command.
registerFolderCommands(cmds, mappings) ==
  LET ids == { mobj[mappings[i]].id : i \in 1..Len(mappings) }
      lastWith(id) == CHOOSE i \in 1..Len(mappings) :
                        /\ mobj[mappings[i]].id = id
                        /\ \A j \in (i + 1)..Len(mappings) : mobj[mappings[j]].id # id
  IN  [id \in DOMAIN cmds \cup ids |->
         IF id \in ids THEN mappings[lastWith(id)] ELSE cmds[id]]

\* The user opens the settings tab: display() draws a row per mapping.  The
\* tab stays open; a tab opened later shows the same rows, as only the tab
\* changes the mappings, so it is opened before anything else is done.
OpenSettings ==
  /\ ~ui.open
  /\ budget = 0
  /\ ui' = [open |-> TRUE, rows |-> folderMappings, clicked |-> 0]
  /\ UNCHANGED << now, vaultVars, mobj, folderMappings, commands, pending,
                  commandVars, logVars, modal, budget, pf >>

CanEdit ==
  /\ ui.open
  /\ UserAction
  /\ pending.plain + pending.redisplay + pending.display < MaxPending

\* The Add Folder button: push, saveSettings() (not awaited), display().
AddFolder ==
  /\ CanEdit
  /\ \E nowMs \in DateNow :
       /\ now' = nowMs
       /\ mobj' = Append(mobj, NewMapping(nowMs))
  /\ folderMappings' = Append(folderMappings, Len(mobj) + 1)
  /\ pending' = [pending EXCEPT !.plain = @ + 1]
  /\ ui' = [ui EXCEPT !.rows = folderMappings']
  /\ data' = SavedSettings(mobj', folderMappings')
  /\ UNCHANGED << vaultVars, commands, commandVars, host, console, invoked, selected, modal, pf >>

\* What the user types into the folder path of a row.
PathInputs == { << >>, << "A", "r", "c", "h", "i", "v", "e" >> }

EditFolderPath_RekeysMapping ==
  /\ CanEdit
  /\ \E k \in UserRows(ui.rows), value \in PathInputs :
       /\ value # mobj[ui.rows[k]].folderPath
       /\ mobj' = [mobj EXCEPT ![ui.rows[k]] =
                     [@ EXCEPT !.folderPath = value, !.id = << "folder-" >> \o value]]
  /\ pending' = [pending EXCEPT !.plain = @ + 1]
  /\ data' = SavedSettings(mobj', folderMappings)
  /\ UNCHANGED << now, vaultVars, folderMappings, ui, commands, commandVars,
                  host, console, invoked, selected, modal, pf >>

\* onChange of the folder path input of row k.
EditFolderPath ==
  /\ CanEdit
  /\ \E k \in UserRows(ui.rows), value \in PathInputs :
       /\ value # mobj[ui.rows[k]].folderPath
       /\ mobj' = [mobj EXCEPT ![ui.rows[k]].folderPath = value]
  /\ pending' = [pending EXCEPT !.plain = @ + 1]
  /\ data' = SavedSettings(mobj', folderMappings)
  /\ UNCHANGED << now, vaultVars, folderMappings, ui, commands, commandVars,
                  host, console, invoked, selected, modal, pf >>

\* What the user types into the display name of a row.
NameInputsOfRow == { "Notes" }

\* onChange of the display name input of row k.
EditDisplayName ==
  /\ CanEdit
  /\ \E k \in UserRows(ui.rows), value \in NameInputsOfRow :
       /\ value # mobj[ui.rows[k]].displayName
       /\ mobj' = [mobj EXCEPT ![ui.rows[k]].displayName = value]
  /\ pending' = [pending EXCEPT !.plain = @ + 1]
  /\ data' = SavedSettings(mobj', folderMappings)
  /\ UNCHANGED << now, vaultVars, folderMappings, ui, commands, commandVars,
                  host, console, invoked, selected, modal, pf >>

\* onChange of the prefix toggle of row k.
TogglePrefix ==
  /\ CanEdit
  /\ \E k \in UserRows(ui.rows) :
       mobj' = [mobj EXCEPT ![ui.rows[k]].addCepochPrefix = ~@]
  /\ pending' = [pending EXCEPT !.plain = @ + 1]
  /\ data' = SavedSettings(mobj', folderMappings)
  /\ UNCHANGED << now, vaultVars, folderMappings, ui, commands, commandVars,
                  host, console, invoked, selected, modal, pf >>

\* onChange of the copy toggle of row k.
ToggleCopy ==
  /\ CanEdit
  /\ \E k \in UserRows(ui.rows) :
       mobj' = [mobj EXCEPT ![ui.rows[k]].copyInsteadOfMove = ~@]
  /\ pending' = [pending EXCEPT !.plain = @ + 1]
  /\ data' = SavedSettings(mobj', folderMappings)
  /\ UNCHANGED << now, vaultVars, folderMappings, ui, commands, commandVars,
                  host, console, invoked, selected, modal, pf >>

\* Array.prototype.splice(index, 1), index being 0-based.
Splice1(arr, index) ==
  [i \in 1..(Len(arr) - (IF index < Len(arr) THEN 1 ELSE 0)) |->
     IF i <= index THEN arr[i] ELSE arr[i + 1]]

\* The rows whose Delete button the user clicks: those of UserRows and the
\* last row drawn.
DeleteRows(rows) ==
  { k \in 1..Len(rows) : k \in UserRows(rows) \/ k = Len(rows) }

\* The Delete button of row k: splice(index, 1) with the index the row was
\* drawn with, then saveSettings() is awaited and display() follows it.
DeleteMapping ==
  /\ CanEdit
  /\ \E k \in DeleteRows(ui.rows) :
       /\ folderMappings' = Splice1(folderMappings, k - 1)
       /\ ui' = [ui EXCEPT !.clicked = ui.rows[k]]
  /\ pending' = [pending EXCEPT !.redisplay = @ + 1]
  /\ data' = SavedSettings(mobj, folderMappings')
  /\ UNCHANGED << now, vaultVars, mobj, commands, commandVars,
                  host, console, invoked, selected, modal, pf >>

\* saveData completes: saveSettings goes on to registerFolderCommands and
\* returns.  The Delete handler that awaits saveSettings resumes in a later
\* step.
SaveDone ==
  /\ \/ /\ pending.plain > 0
        /\ pending' = [pending EXCEPT !.plain = @ - 1]
     \/ /\ pending.redisplay > 0
        /\ pending' = [pending EXCEPT !.redisplay = @ - 1, !.display = @ + 1]
  /\ commands' = registerFolderCommands(commands, folderMappings)
  /\ UNCHANGED << now, vaultVars, mobj, folderMappings, ui, commandVars, logVars, modal,
                  budget, pf >>

\* Line 771: the Delete handler resumes from its await and calls display().
DisplayAfterDelete ==
  /\ pending.display > 0
  /\ pending' = [pending EXCEPT !.display = @ - 1]
  /\ ui' = [ui EXCEPT !.rows = folderMappings]
  /\ UNCHANGED << now, vaultVars, mobj, folderMappings, commands, commandVars,
                  logVars, modal, budget, pf >>

(***************************************************************************)
(* The whole plugin.                                                       *)
(***************************************************************************)
Next ==
  \/ \E tk \in TaskIds : MappingCommand(tk)
  \/ \E tk \in TaskIds : MoveToRootCommand(tk)
  \/ MoveMenuCommand
  \/ \E tk \in TaskIds : MoveMenuChoose(tk)
  \/ DuplicateMenuCommand
  \/ \E tk \in TaskIds : DuplicateMenuChoose(tk)
  \/ \E tk \in TaskIds : MoveToParentCommand(tk)
  \/ MoveToNewFolderCommand
  \/ \E tk \in TaskIds : NewFolderSubmit(tk)
  \/ ModalClose
  \/ \E tk \in TaskIds : HostCreateFolderDone(tk)
  \/ \E tk \in TaskIds : EnsureFolderDone(tk)
  \/ \E tk \in TaskIds : EnsureFolderThrew(tk)
  \/ \E tk \in TaskIds : HostReadDone(tk)
  \/ \E tk \in TaskIds : ReadResumes(tk)
  \/ \E tk \in TaskIds : HostCreateDone(tk)
  \/ \E tk \in TaskIds : CreateResumes(tk)
  \/ \E tk \in TaskIds : HostOpenDone(tk)
  \/ \E tk \in TaskIds : OpenResumes(tk)
  \/ \E tk \in TaskIds : AwaitThrew(tk)
  \/ \E tk \in TaskIds : HostRenameDone(tk)
  \/ \E tk \in TaskIds : RenameResumes(tk)
  \/ OpenSettings
  \/ AddFolder
  \/ EditFolderPath
  \/ EditDisplayName
  \/ TogglePrefix
  \/ ToggleCopy
  \/ DeleteMapping
  \/ SaveDone
  \/ DisplayAfterDelete

Spec == Init /\ [][Next]_vars

(***************************************************************************)
(* duplicateFileToFolder on its own, run again and again, each run after   *)
(* the one before it is through: nothing leaves the vault, and every       *)
(* destination a run returns is taken when the next run starts.            *)
(***************************************************************************)
DupFolders == { << >>, << "A", "r", "c", "h", "i", "v", "e" >> }

DupRun(tk) ==
  /\ \A other \in TaskIds : task[other].pc = "idle"
  /\ Len(dupLog) < MaxDupRuns
  /\ \E activeFile \in {1}, targetFolder \in DupFolders, addPrefix \in BOOLEAN :
       StartCommand(tk, activeFile, "duplicate", targetFolder, addPrefix)
  /\ UNCHANGED << budget, invoked, selected, modal >>

NextDup ==
  \/ \E tk \in TaskIds : DupRun(tk)
  \/ \E tk \in TaskIds : HostCreateFolderDone(tk)
  \/ \E tk \in TaskIds : EnsureFolderDone(tk)
  \/ \E tk \in TaskIds : EnsureFolderThrew(tk)
  \/ \E tk \in TaskIds : HostReadDone(tk)
  \/ \E tk \in TaskIds : ReadResumes(tk)
  \/ \E tk \in TaskIds : HostCreateDone(tk)
  \/ \E tk \in TaskIds : CreateResumes(tk)
  \/ \E tk \in TaskIds : HostOpenDone(tk)
  \/ \E tk \in TaskIds : OpenResumes(tk)
  \/ \E tk \in TaskIds : AwaitThrew(tk)

SpecDup == Init /\ [][NextDup]_vars

(***************************************************************************)
(* The quick move menu on its own, the settings being what edits in the    *)
(* settings tab made of the defaults: the first MaxRow mappings have the   *)
(* folder path they had or one of PathInputs, and any flags.               *)
(***************************************************************************)
\* What edits make of the mapping of row i.
EditedMapping(i) ==
  IF i <= MaxRow
  THEN { [DEFAULT_SETTINGS[i] EXCEPT !.folderPath = path, !.addCepochPrefix = prefix,
                                     !.copyInsteadOfMove = copy] :
           path \in {DEFAULT_SETTINGS[i].folderPath} \cup PathInputs,
           prefix \in BOOLEAN, copy \in BOOLEAN }
  ELSE { DEFAULT_SETTINGS[i] }

RECURSIVE EditedSettingsFrom(_)
EditedSettingsFrom(i) ==
  IF i > Len(DEFAULT_SETTINGS) THEN { << >> }
  ELSE { << mapping >> \o rest :
           mapping \in EditedMapping(i), rest \in EditedSettingsFrom(i + 1) }

InitMenu ==
  /\ \E chosen \in { {1}, {3} } :
       /\ files = InitVault(chosen)
       /\ folders = UNION { ParentFolders(InitPaths[i]) : i \in chosen }
  /\ active = 0
  /\ mobj \in EditedSettingsFrom(1)
  /\ folderMappings = [i \in 1..Len(DEFAULT_SETTINGS) |-> i]
  /\ ui = [open |-> TRUE, rows |-> folderMappings, clicked |-> 0]
  /\ commands = [id \in { DEFAULT_SETTINGS[i].id : i \in 1..Len(DEFAULT_SETTINGS) } |->
                   CHOOSE i \in 1..Len(DEFAULT_SETTINGS) : DEFAULT_SETTINGS[i].id = id]
  /\ pending = [plain |-> 0, redisplay |-> 0, display |-> 0]
  /\ task = [tk \in TaskIds |-> IdleTask]
  /\ notice = NoNotice
  /\ lastDest = NoDest
  /\ dupLog = << >>
  /\ host = NoHostCall
  /\ console = "none"
  /\ invoked = NoCommand
  /\ selected = NoEntry
  /\ modal = NoModal
  /\ data = SavedSettings(mobj, folderMappings)
  /\ budget = 0
  /\ now = 0
  /\ pf = [orig |-> << >>, log |-> << >>]

NextMenu ==
  \/ MoveMenuCommand
  \/ \E tk \in TaskIds : MoveMenuChoose(tk)
  \/ ModalClose
  \/ \E tk \in TaskIds : HostCreateFolderDone(tk)
  \/ \E tk \in TaskIds : EnsureFolderDone(tk)
  \/ \E tk \in TaskIds : EnsureFolderThrew(tk)
  \/ \E tk \in TaskIds : HostReadDone(tk)
  \/ \E tk \in TaskIds : ReadResumes(tk)
  \/ \E tk \in TaskIds : HostCreateDone(tk)
  \/ \E tk \in TaskIds : CreateResumes(tk)
  \/ \E tk \in TaskIds : HostOpenDone(tk)
  \/ \E tk \in TaskIds : OpenResumes(tk)
  \/ \E tk \in TaskIds : AwaitThrew(tk)
  \/ \E tk \in TaskIds : HostRenameDone(tk)
  \/ \E tk \in TaskIds : RenameResumes(tk)

SpecMenu == InitMenu /\ [][NextMenu]_vars

(***************************************************************************)
(* onload on its own: the plugin is enabled with any saved data of up to   *)
(* MaxSavedMappings mappings, as this version or the version of            *)
(* src/main.ts, whose mappings have no flags, saved them.                  *)
(***************************************************************************)
\* loadSettings: Object.assign({}, DEFAULT_SETTINGS, await this.loadData()),
\* the folderMappings of the result.  The keys of the saved object replace
\* those of the defaults as a whole.
loadSettings(saved) ==
  IF ~saved.isNull /\ "folderMappings" \in saved.keys
  THEN saved.folderMappings
  ELSE DEFAULT_SETTINGS

\* The mappings found in saved data.
SavedMappings ==
  { [id |-> << "archive" >>, folderPath |-> << "A", "r", "c", "h", "i", "v", "e" >>,
     displayName |-> "Archive", addCepochPrefix |-> p, copyInsteadOfMove |-> c] :
       p \in BOOLEAN, c \in BOOLEAN }
  \cup
  { [id |-> << "archive" >>, folderPath |-> << "A", "r", "c", "h", "i", "v", "e" >>,
     displayName |-> "Archive"],
    [id |-> << "inbox" >>, folderPath |-> << "I", "n", "b", "o", "x" >>,
     displayName |-> "Inbox"],
    [id |-> << "folder-", "0" >>, folderPath |-> << >>, displayName |-> ""] }

\* What loadData() may return: null, an object without folderMappings, or an
\* object with the mappings of an earlier session.
SavedData ==
  { NoData, [isNull |-> FALSE, keys |-> {}, folderMappings |-> << >>] }
  \cup
  { [isNull |-> FALSE, keys |-> {"folderMappings"}, folderMappings |-> s] :
      s \in UNION { [1..n -> SavedMappings] : n \in 0..MaxSavedMappings } }

\* The plugin is not enabled yet: there are no settings and no commands.
InitUnloaded ==
  /\ \E chosen \in SUBSET (1..Len(InitPaths)) :
       /\ chosen # {}
       /\ Cardinality(chosen) <= MaxInitFiles
       /\ files = InitVault(chosen)
       /\ folders = UNION { ParentFolders(InitPaths[i]) : i \in chosen }
  /\ active = 0
  /\ mobj = << >>
  /\ folderMappings = << >>
  /\ ui = [open |-> FALSE, rows |-> << >>, clicked |-> 0]
  /\ commands = [id \in {} |-> 0]
  /\ pending = [plain |-> 0, redisplay |-> 0, display |-> 0]
  /\ task = [tk \in TaskIds |-> IdleTask]
  /\ notice = NoNotice
  /\ lastDest = NoDest
  /\ dupLog = << >>
  /\ host = NoHostCall
  /\ console = "none"
  /\ invoked = NoCommand
  /\ selected = NoEntry
  /\ modal = NoModal
  /\ data \in SavedData
  /\ budget = 0
  /\ now = 0
  /\ pf = [orig |-> << >>, log |-> << >>]

\* onload: loadSettings, then registerFolderCommands.
Onload ==
  /\ host.call = "none"
  /\ mobj' = loadSettings(data)
  /\ folderMappings' = [i \in 1..Len(mobj') |-> i]
  /\ commands' = [id \in { mobj'[i].id : i \in 1..Len(mobj') } |->
                    CHOOSE i \in 1..Len(mobj') :
                      /\ mobj'[i].id = id
                      /\ \A j \in (i + 1)..Len(mobj') : mobj'[j].id # id]
  /\ host' = [tk |-> 0, call |-> "loadData", threw |-> FALSE]
  /\ UNCHANGED << now, vaultVars, ui, pending, commandVars, console, invoked, selected, modal,
                  data, budget, pf >>

NextLoad == Onload

SpecLoad == InitUnloaded /\ [][NextLoad]_vars

(***************************************************************************)
(* The prefix transform on its own: every name up to MaxNameLen characters *)
(* over NameAlphabet, re-prefixed up to MaxApply times as the clock moves. *)
(***************************************************************************)
NameAlphabet == {"a", "b", "_", "."}

RECURSIVE NamesOfLen(_)
NamesOfLen(n) ==
  IF n = 0
  THEN { << >> }
  ELSE { << c >> \o s : c \in NameAlphabet, s \in NamesOfLen(n - 1) }

NameInputs == UNION { NamesOfLen(n) : n \in 1..MaxNameLen }

PfCurrent == IF pf.log = << >> THEN pf.orig ELSE pf.log[Len(pf.log)].out

InitPrefix ==
  /\ InitSystem
  /\ Len(files) = 1
  /\ files[1].path = InitPaths[1]
  /\ now \in ClockSamples
  /\ \E x \in NameInputs : pf = [orig |-> x, log |-> << >>]

\* One prefixed move renames the file to processFilenameWithPrefix(name, true).
PfApply ==
  /\ Len(pf.log) < MaxApply
  /\ pf' = [pf EXCEPT !.log = Append(@,
               [t |-> now, in |-> PfCurrent,
                out |-> processFilenameWithPrefix(PfCurrent, TRUE, now)])]
  /\ UNCHANGED << now, vaultVars, settingsVars, commandVars, logVars, modal, budget >>

NextPrefix == PfApply \/ Tick

SpecPrefix == InitPrefix /\ [][NextPrefix]_vars

(***************************************************************************)
(* Reference notions the properties of the prefix transform are stated in. *)
(***************************************************************************)
\* 1-based position of the first c in s, 0 when s holds none.
FirstPos(s, c) ==
  IF \E i \in 1..Len(s) : s[i] = c
  THEN CHOOSE i \in 1..Len(s) : s[i] = c /\ \A j \in 1..(i - 1) : s[j] # c
  ELSE 0

\* The text of s after its position k.
After(s, k) == SubSeq(s, k + 1, Len(s))

\* 1-based position at which the extension of a name starts: its last ".",
\* unless the name has none or only a leading one (then the name has no
\* extension and the position is one past its end).
ExtStart(x) ==
  LET dots == { i \in 2..Len(x) : x[i] = "." }
  IN  IF dots = {} THEN Len(x) + 1
      ELSE CHOOSE i \in dots : \A j \in dots : j <= i

StemOf(x) == SubSeq(x, 1, ExtStart(x) - 1)
ExtOf(x) == SubSeq(x, ExtStart(x), Len(x))

IsSuffix(t, s) ==
  Len(t) <= Len(s) /\ SubSeq(s, Len(s) - Len(t) + 1, Len(s)) = t

DigitValue(c) == CHOOSE v \in 0..(Radix - 1) : Digits36[v + 1] = c

\* The number a digit string denotes when its first digit is the least
\* significant one.
RECURSIVE DecodeLsbFirst(_)
DecodeLsbFirst(s) ==
  IF s = << >> THEN 0
  ELSE DigitValue(Head(s)) + Radix * DecodeLsbFirst(Tail(s))

SameSecond(t1, t2) == (t1 \div MsPerSecond) = (t2 \div MsPerSecond)

PfEntries == { pf.log[i] : i \in 1..Len(pf.log) }

\* C6: when the name without extension has a non-empty first segment followed
\* by "_", the transform drops that segment and its "_" and nothing else:
\* what follows the new prefix and its "_" in the result is exactly what
\* followed the first "_" in the input, later "_" segments and extension
\* included.
C6_StripsExactlyOneSegment ==
  \A e \in PfEntries :
    FirstPos(StemOf(e.in), "_") > 1
      => After(e.out, FirstPos(e.out, "_")) = After(e.in, FirstPos(StemOf(e.in), "_"))

\* A prefixed name with two further "_" segments was re-prefixed.
C6_Witness ==
  \E e \in PfEntries :
    LET k == FirstPos(StemOf(e.in), "_")
    IN  /\ k > 1
        /\ FirstPos(After(StemOf(e.in), k), "_") > 1
        /\ FirstPos(After(e.out, FirstPos(e.out, "_")), "_") > 1

\* C7: applying the transform to its own result within the same second gives
\* that result again, f_t(f_t(x)) = f_t(x).
C7_IdempotentWithinSecond ==
  \A i \in 2..Len(pf.log) :
    SameSecond(pf.log[i].t, pf.log[i - 1].t)
      => /\ pf.log[i].in = pf.log[i - 1].out
         /\ pf.log[i].out = pf.log[i].in

\* The transform was applied twice in one second, at two different instants,
\* to a name it changed the first time.
C7_Witness ==
  \E i \in 2..Len(pf.log) :
    /\ SameSecond(pf.log[i].t, pf.log[i - 1].t)
    /\ pf.log[i].t # pf.log[i - 1].t
    /\ pf.log[i - 1].out # pf.log[i - 1].in

\* C8: re-prefixing replaces the old prefix, f_t2(f_t1(x)) = f_t2(x): after
\* any number of prefixed moves the name is the single transform of the
\* original name at the last instant, what follows its first "_" never
\* changes, and it is at most one prefix and one "_" longer than the original.
C8_PrefixReplacedNotAccumulated ==
  \A i \in 1..Len(pf.log) :
    LET e == pf.log[i]
    IN  /\ e.out = processFilenameWithPrefix(pf.orig, TRUE, e.t)
        /\ After(e.out, FirstPos(e.out, "_"))
             = After(pf.log[1].out, FirstPos(pf.log[1].out, "_"))
        /\ Len(e.out) <= Len(Cepoch(e.t)) + 1 + Len(pf.orig)

\* A name was prefixed three times, the last two at seconds whose prefixes
\* differ in length.
C8_Witness ==
  /\ Len(pf.log) >= 3
  /\ Len(Cepoch(pf.log[2].t)) < Len(Cepoch(pf.log[3].t))
  /\ pf.log[3].out # pf.log[2].out

\* C9: the result is prefix + "_" + base name + extension: the prefix is a
\* non-empty string of base-36 digits (so it holds neither "_" nor "."), it
\* denotes floor(now / 1000) when read with the least significant digit
\* first and has no superfluous zero digit; after it come a "_" and a tail of
\* the input that ends with the input's extension, which is the extension of
\* the result (for a name the vault can hold: one that does not start with
\* "."); and every instant of the same second gives the same result.
C9_PrefixIsReversedBase36Seconds ==
  \A e \in PfEntries :
    LET k == FirstPos(e.out, "_")
        prefix == SubSeq(e.out, 1, k - 1)
        rest == After(e.out, k)
    IN  /\ k > 1
        /\ \A i \in 1..Len(prefix) : \E v \in 1..Radix : Digits36[v] = prefix[i]
        /\ DecodeLsbFirst(prefix) = e.t \div MsPerSecond
        /\ Len(prefix) = 1 \/ prefix[Len(prefix)] # "0"
        /\ IsSuffix(rest, e.in)
        /\ IsSuffix(ExtOf(e.in), rest)
        /\ e.in[1] # "." => ExtOf(e.out) = ExtOf(e.in)
        /\ \A t2 \in ClockSamples :
             SameSecond(t2, e.t) => processFilenameWithPrefix(e.in, TRUE, t2) = e.out

\* A name with an extension was prefixed at a second that has three base-36
\* digits which do not read the same in both directions.
C9_Witness ==
  \E e \in PfEntries :
    /\ Len(Cepoch(e.t)) = 3
    /\ Cepoch(e.t) # Reverse(Cepoch(e.t))
    /\ ExtOf(e.in) # << >>
    /\ StemOf(e.in) # << >>

(***************************************************************************)
(* Properties of duplicateFileToFolder and moveCurrentFileToFolder.        *)
(***************************************************************************)
\* The step in which command tk calls vault.create.
IssuesCreate(tk) == task[tk].pc # "create" /\ task'[tk].pc = "create"

\* C1: the path duplicateFileToFolder hands to vault.create is the path of no
\* file and no folder of the vault at the moment the call is made, whatever
\* other commands are in flight.
C1_CreatePathUnoccupied ==
  [][\A tk \in TaskIds :
       IssuesCreate(tk) => task'[tk].newPath \notin Items(files, folders)]_vars

\* A copy is about to be created under a numbered name, the unnumbered one
\* and an earlier number being taken.
C1_Witness ==
  \E tk \in TaskIds :
    /\ task[tk].pc = "create"
    /\ task[tk].counter > 2
    /\ task[tk].newPath \notin Items(files, folders)

\* The candidates base.ext, base 1.ext, base 2.ext, ... for a file name in a
\* folder, as the specification words them: the number follows the name
\* without its extension and one space, and precedes the extension; a name
\* without "." has no extension.
RefCandidate(targetFolder, fileName, n) ==
  LET numbered == IF n = 0 THEN fileName
                  ELSE StemOf(fileName) \o << " " >> \o Itoa(n) \o ExtOf(fileName)
  IN  IF targetFolder = << >> THEN numbered
      ELSE targetFolder \o << "/" >> \o numbered

\* C2: the destination of a copy is the first unoccupied one of the
\* candidates base.ext, base 1.ext, base 2.ext, ...: it is a candidate, and
\* every candidate before it is taken.
C2_FirstFreeCandidate ==
  [][\A tk \in TaskIds :
       IssuesCreate(tk) =>
         \E n \in 0..Cardinality(Items(files, folders)) :
           /\ task'[tk].newPath = RefCandidate(task'[tk].folder, task'[tk].procName, n)
           /\ \A m \in 0..(n - 1) :
                RefCandidate(task'[tk].folder, task'[tk].procName, m)
                  \in Items(files, folders)]_vars

\* The entries of dupLog for the same name and folder as entry i.
SameRun(i) ==
  { j \in 1..Len(dupLog) :
      dupLog[j].folder = dupLog[i].folder /\ dupLog[j].name = dupLog[i].name }

\* What the vault held when run i began: runs happen one after the other and
\* add nothing but the paths they return.
ItemsBeforeRun(i) ==
  Items(files, folders) \ { dupLog[j].path : j \in i..Len(dupLog) }

\* The numbers a name of the vault carries as a copy of fileName in a folder.
NumbersTaken(items, targetFolder, fileName) ==
  { n \in 1..(Cardinality(items) + 1) :
      JoinPath(targetFolder,
               NumberedName(SplitBaseName(fileName), n, SplitExtension(fileName)))
        \in items }

\* The path run j returned was added to the vault: the file is there, and
\* it was run j that created it, no later run having returned the path.
Added(j) ==
  /\ dupLog[j].path \in FilePaths(files)
  /\ \A k \in (j + 1)..Len(dupLog) : dupLog[k].path # dupLog[j].path

\* C3: when duplicateFileToFolder is run repeatedly for one name and folder,
\* the number of a returned path is greater than the number of every path
\* returned before it that was added to the vault (0 standing for the
\* unnumbered name); and when the vault holds the unnumbered name and none of
\* the numbered ones at the first such run, the first number is 1.
C3_CountersStrictlyIncreaseFromOne ==
  \A i \in 1..Len(dupLog) :
    LET e == dupLog[i]
        earlier == { j \in SameRun(i) : j < i /\ Added(j) }
    IN  /\ \A j \in earlier : dupLog[j].counter < e.counter
        /\ ( /\ earlier = {}
             /\ JoinPath(e.folder, e.name) \in ItemsBeforeRun(i)
             /\ NumbersTaken(ItemsBeforeRun(i), e.folder, e.name) = {} )
           => e.counter = 1

\* Three runs for one name and folder, the vault holding the unnumbered name
\* and no numbered one at first, returned the numbers 1, 2 and 3.
C3_Witness ==
  /\ Len(dupLog) = 3
  /\ SameRun(1) = {1, 2, 3}
  /\ JoinPath(dupLog[1].folder, dupLog[1].name) \in ItemsBeforeRun(1)
  /\ NumbersTaken(ItemsBeforeRun(1), dupLog[1].folder, dupLog[1].name) = {}
  /\ Added(1) /\ Added(2)
  /\ dupLog[1].counter = 1
  /\ dupLog[2].counter = 2
  /\ dupLog[3].counter = 3

\* path is fileName itself for the root, and targetFolder, "/" and fileName
\* in a row for any other folder.
DestinationShape(targetFolder, fileName, path) ==
  IF targetFolder = << >>
  THEN path = fileName /\ path[1] # "/"
  ELSE /\ Len(path) = Len(targetFolder) + 1 + Len(fileName)
       /\ SubSeq(path, 1, Len(targetFolder)) = targetFolder
       /\ path[Len(targetFolder) + 1] = "/"
       /\ SubSeq(path, Len(targetFolder) + 2, Len(path)) = fileName

\* C4: every destination moveCurrentFileToFolder and duplicateFileToFolder
\* compute (the one found taken by a move, the one handed to rename or create,
\* and every numbered candidate the conflict loop went through) is the bare
\* file name when the target folder is empty and targetFolder + "/" + file
\* name otherwise.
C4_DestinationIsFolderSlashName ==
  /\ lastDest.op # "none" =>
       DestinationShape(lastDest.folder, lastDest.fileName, lastDest.path)
  /\ \A tk \in TaskIds :
       task[tk].pc \in {"create", "rename"} =>
         /\ DestinationShape(task[tk].folder, task[tk].fileName, task[tk].newPath)
         /\ \A n \in 1..(task[tk].counter - 1) :
              LET numberedName == NumberedName(SplitBaseName(task[tk].procName), n,
                                               SplitExtension(task[tk].procName))
              IN  DestinationShape(task[tk].folder, numberedName,
                                   JoinPath(task[tk].folder, numberedName))

\* A move to the root is awaiting its rename while a copy into a folder is
\* awaiting its create under a numbered name.
C4_Witness ==
  \E t1, t2 \in TaskIds :
    /\ task[t1].pc = "rename" /\ task[t1].folder = << >>
    /\ task[t2].pc = "create" /\ task[t2].folder # << >> /\ task[t2].counter > 1

\* C5: a file name without "." is its own base and has an empty extension:
\* the numbered candidates of its copies are the name, one space and the
\* number, with nothing after the number.
C5_NoExtensionNumberedNames ==
  \A tk \in TaskIds :
    ( /\ task[tk].pc = "create"
      /\ task[tk].counter > 1
      /\ \A i \in 1..Len(task[tk].procName) : task[tk].procName[i] # "." )
    => task[tk].fileName
         = task[tk].procName \o << " " >> \o Itoa(task[tk].counter - 1)

(***************************************************************************)
(* Properties of the settings.                                             *)
(***************************************************************************)
\* C10: the ids of the mappings in folderMappings are pairwise distinct after
\* any sequence of settings edits from the defaults.
C10_MappingIdsDistinct ==
  \A i, j \in 1..Len(folderMappings) :
    i # j => mobj[folderMappings[i]].id # mobj[folderMappings[j]].id

\* C11: the id of a mapping never changes once the mapping exists: no step,
\* be it an edit of a path, a name or a flag, or the adding or deleting of
\* another mapping, changes the id of a mapping object, so every mapping that
\* stays in folderMappings keeps its id.
C11_MappingIdNeverChanges ==
  [][\A o \in 1..Len(mobj) :
       /\ o \in 1..Len(mobj')
       /\ mobj'[o].id = mobj[o].id]_vars

\* A default mapping has had its folder path edited and the number of
\* mappings has changed, and the mapping still has its default id.
C11_Witness ==
  /\ Len(folderMappings) # Len(DEFAULT_SETTINGS)
  /\ \E k \in 1..Len(folderMappings) :
       LET o == folderMappings[k]
       IN  /\ o <= Len(DEFAULT_SETTINGS)
           /\ mobj[o].folderPath # DEFAULT_SETTINGS[o].folderPath
           /\ mobj[o].id = DEFAULT_SETTINGS[o].id

\* A step in which a handler of the settings tab ran: each of them calls
\* saveSettings, and nothing else does.
SettingsEdit ==
  pending'.plain + pending'.redisplay > pending.plain + pending.redisplay

\* s with its k-th element left out.
RemoveAt(s, k) == SubSeq(s, 1, k - 1) \o SubSeq(s, k + 1, Len(s))

\* C12: settings edits preserve order: the Add Folder button appends the new
\* mapping at the end of folderMappings, an edit of a path, a name or a flag
\* leaves folderMappings as it is, and the Delete button removes exactly one
\* element, the others keeping their relative order.
C12_EditsPreserveOrder ==
  [][SettingsEdit =>
       IF Len(mobj') > Len(mobj)
       THEN folderMappings' = Append(folderMappings, Len(mobj'))
       ELSE IF pending'.redisplay > pending.redisplay
            THEN \E k \in 1..Len(folderMappings) :
                   folderMappings' = RemoveAt(folderMappings, k)
            ELSE folderMappings' = folderMappings]_vars

\* C13: once every saveSettings call of the edits made so far has completed,
\* the per-mapping commands registered with the host are exactly those of the
\* mappings in folderMappings: one command "move-to-<id>" per id, and none
\* for a mapping that was deleted.
C13_CommandsMatchMappings ==
  (pending.plain + pending.redisplay = 0) =>
    DOMAIN commands = { mobj[folderMappings[i]].id : i \in 1..Len(folderMappings) }

(***************************************************************************)
(* Properties of the commands' failures and suspension points.             *)
(***************************************************************************)
\* The host calls a command awaits.
HostCalls == {"createFolder", "read", "create", "open", "rename"}

\* The step in which the host call command tk awaits raises an error.
HostCallThrows(tk) ==
  /\ task[tk].pc \in HostCalls
  /\ task'[tk].pc # task[tk].pc
  /\ host' = [tk |-> tk, call |-> task[tk].pc, threw |-> TRUE]

\* Where a command is when a host call has raised an error and the command
\* has yet to go on: createFolder throws inside ensureFolderExists.
ThrewAt(call) ==
  IF call = "createFolder" THEN "ensureFolderThrew" ELSE call \o "Threw"

\* The step in which the error of a host call reaches the command tk: the
\* await of the call, or of ensureFolderExists for createFolder, resumes.
ErrorReachesCommand(tk) ==
  /\ task[tk].pc \in { ThrewAt(call) : call \in HostCalls }
  /\ task'[tk] # task[tk]

\* C14: whichever host call of a move or duplicate command fails (folder
\* creation, read, create, rename, opening the copy), the command catches the
\* error: it is logged, a notice of the error is shown and the command ends
\* without rejecting; the settings in memory and the registered commands are
\* as before, and a slot is free for a later command.  The failure changes
\* nothing until it reaches the command, which does nothing else after it.
C14_HostFailuresAreCaught ==
  [][\A tk \in TaskIds :
       /\ HostCallThrows(tk) =>
            /\ task'[tk].pc = ThrewAt(task[tk].pc)
            /\ << files', folders', notice', console' >>
                 = << files, folders, notice, console >>
            /\ \A other \in TaskIds \ {tk} : task'[other] = task[other]
       /\ ErrorReachesCommand(tk) =>
            /\ task'[tk] = IdleTask
            /\ console' = IF task[tk].kind = "move" THEN "Error moving file:"
                          ELSE "Error duplicating file:"
            /\ notice'.kind = IF task[tk].kind = "move" THEN "errorMove" ELSE "errorDup"
            /\ mobj' = mobj
            /\ folderMappings' = folderMappings
            /\ commands' = commands
            /\ \A other \in TaskIds \ {tk} : task'[other] = task[other]]_vars

\* createFolder failed for a move, the rename of another move completed
\* before the error reached the first, and then it did: the notice is that
\* of the error, the file of the other move is where it was moved to and no
\* command is in flight.
C14_Witness ==
  /\ host.call = "rename"
  /\ ~host.threw
  /\ console = "Error moving file:"
  /\ notice.kind = "errorMove"
  /\ notice.path \notin Items(files, folders)
  /\ \A tk \in TaskIds : task[tk].pc = "idle"

\* A step in which the user ran a command: it is one of the user's actions,
\* and it is none of the settings tab.
CommandInvoked ==
  /\ budget' = budget + 1
  /\ pending' = pending

\* The step in which the user picked something in the modal of a command, an
\* entry of a menu or a folder name that is not blank: the callback of the
\* command runs.  No pick is on record while a modal is open.
ModalChosen ==
  /\ modal.kind # "none"
  /\ modal' = NoModal
  /\ selected = NoEntry
  /\ selected' # NoEntry

\* The notices of the safety checks: there is no active file, or the active
\* item is not a file.
SafetyNotices == {"noActiveMove", "noActiveDup", "notAFile"}

\* The commands that open a modal and act when something is picked in it.
ModalCommands ==
  { << "show-move-menu" >>, << "show-duplicate-menu" >>, << "move-to-new-folder" >> }

\* A step in which a command that found no active file, or an item that is
\* not a file, is over: it ran and opened no modal, or the pick of its modal
\* was acted on.
EndsWithoutFile ==
  /\ \/ CommandInvoked /\ modal' = modal
     \/ ModalChosen
  /\ active' \in {0, NotAFile}

\* A step in which the modal of a command is closed with no pick (Escape,
\* Cancel, a blank folder name), when the command had opened it on an item
\* that is not a file and no other command has run since.
DismissedOnNotAFile ==
  /\ modal.kind # "none"
  /\ modal' = NoModal
  /\ selected' = NoEntry
  /\ invoked \in ModalCommands
  /\ active = NotAFile

\* C15 (as stated): a command that finds no active file, or an active item
\* that is not a file (any of move to a mapping, move to root, move to
\* parent, move to new folder, the move menu, the duplicate menu; it is over
\* when it has run without opening a modal, or when its modal is closed, with
\* a pick or without) ends with a notice and issues no mutating host call: no
\* folder and no file is created, no file is renamed and no command is left
\* awaiting the host.
C15_NoFileEndsWithNotice ==
  [][(EndsWithoutFile \/ DismissedOnNotAFile) =>
       /\ notice'.kind \in SafetyNotices
       /\ files' = files
       /\ folders' = folders
       /\ task' = task
       /\ host' = host]_vars

\* C15 (as it holds): a command that finds no active file, or an active item
\* that is not a file, issues no mutating host call: no folder and no file
\* is created, no file is renamed and no command is left awaiting the host.
\* With no active file every command ends with the notice that there is
\* none.  With an item that is not a file, move to a mapping, move to root
\* and move to parent end with the notice that it is not a file; the move
\* menu, the duplicate menu and move to new folder, which test for a missing
\* file only, open their modal and show no notice: the notice that the item
\* is not a file is shown when the pick of the modal is acted on, and no
\* notice is shown when the modal is closed without a pick.
C15_NoFileNoHostCall ==
  /\ [][((CommandInvoked \/ ModalChosen) /\ active' \in {0, NotAFile}) =>
          /\ files' = files
          /\ folders' = folders
          /\ task' = task
          /\ host' = host
          /\ IF active' = 0
             THEN /\ notice'.kind \in {"noActiveMove", "noActiveDup"}
                  /\ modal' = NoModal \/ modal' = modal
             ELSE IF invoked' \in ModalCommands /\ CommandInvoked
                  THEN /\ modal = NoModal
                       /\ modal'.kind # "none"
                       /\ notice' = notice
                  ELSE notice'.kind = "notAFile"]_vars
  /\ [][DismissedOnNotAFile =>
          /\ notice' = notice
          /\ files' = files
          /\ folders' = folders
          /\ task' = task
          /\ host' = host]_vars

\* The move menu was opened on an item that is not a file and an entry was
\* picked: the notice says that the item is not a file, the folder of no
\* command was created and no command is in flight.
C15_Witness ==
  /\ invoked = << "show-move-menu" >>
  /\ selected.kind = "mapping"
  /\ active = NotAFile
  /\ budget = 1
  /\ notice.kind = "notAFile"
  /\ folders = UNION { ParentFolders(files[i].path) : i \in 1..Len(files) }
  /\ \A tk \in TaskIds : task[tk].pc = "idle"

\* The step in which a move command has computed its destination.
MoveDestinationComputed ==
  /\ lastDest'.n = lastDest.n + 1
  /\ lastDest'.op = "move"

\* C16: a move never overwrites.  When the destination a move command has
\* computed is taken (by another item, or by the file itself when it is moved
\* without prefix to the folder it is in), the command shows the notice that
\* the file exists and does not call the host's rename: no file changes and no
\* command starts awaiting a rename.  A rename that is called and completes
\* changes the path of the moved file only, to a path that nothing had,
\* leaves the content of the moved file as it is, and leaves in every file
\* the text of the note it held (the host may update the links to the moved
\* file in it).
C16_MoveNeverOverwrites ==
  [][/\ (MoveDestinationComputed /\ lastDest'.path \in Items(files, folders')) =>
          /\ notice' = [kind |-> "exists", path |-> lastDest'.path]
          /\ files' = files
          /\ \A tk \in TaskIds : task'[tk].pc = "rename" => task'[tk] = task[tk]
     /\ \A tk \in TaskIds :
          (task[tk].pc = "rename" /\ task'[tk].pc # "rename") =>
            /\ Len(files') = Len(files)
            /\ folders' = folders
            /\ \A i \in 1..Len(files) :
                 NoteOf(files'[i].content) = NoteOf(files[i].content)
            /\ \A i \in 1..Len(files) :
                 \/ files'[i].path = files[i].path
                 \/ /\ i = task[tk].file
                    /\ files'[i].content = files[i].content
                    /\ files'[i].path = task[tk].newPath
                    /\ files'[i].path \notin Items(files, folders)]_vars

\* The last move was of the active file, without prefix, to the folder it is
\* in: the notice says its own path is taken, and the file is where it was.
C16_Witness ==
  /\ active \in 1..Len(files)
  /\ lastDest.op = "move"
  /\ lastDest.path = files[active].path
  /\ notice = [kind |-> "exists", path |-> files[active].path]
  /\ \A tk \in TaskIds : task[tk].pc = "idle"

(***************************************************************************)
(* Properties of loadSettings.                                             *)
(***************************************************************************)
\* The fields of a FolderMapping.
FolderMappingFields ==
  {"id", "folderPath", "displayName", "addCepochPrefix", "copyInsteadOfMove"}

\* C17: after loadSettings the settings have all required fields: with no
\* saved data the mappings are the defaults, and whatever the saved data,
\* every mapping of folderMappings has an id, a folder path, a display name and
\* a boolean for each of the prefix flag and the copy flag.
C17_LoadedSettingsAreComplete ==
  host.call = "loadData" =>
    /\ data.isNull => [i \in 1..Len(folderMappings) |-> mobj[folderMappings[i]]]
                        = DEFAULT_SETTINGS
    /\ \A i \in 1..Len(folderMappings) :
         LET mapping == mobj[folderMappings[i]]
         IN  /\ FolderMappingFields \subseteq DOMAIN mapping
             /\ mapping.addCepochPrefix \in BOOLEAN
             /\ mapping.copyInsteadOfMove \in BOOLEAN

\* The step is one of command tk, and of nothing else: no other command
\* moves on and no handler of the settings tab runs in it.
RunsAlone(tk) ==
  /\ \A other \in TaskIds \ {tk} : task'[other] = task[other]
  /\ mobj' = mobj
  /\ folderMappings' = folderMappings
  /\ pending' = pending

\* Where a command is while it is suspended at the await of a host call:
\* the call is pending, or it has completed, with or without an error, and
\* the command has yet to go on.  createFolder is awaited inside
\* ensureFolderExists, and of its completion without an error the command
\* learns as of a return of ensureFolderExists.
SuspendedAt(call) ==
  IF call = "createFolder" THEN {call, ThrewAt(call)}
  ELSE {call, ThrewAt(call),
        CASE call = "read" -> "readDone"
          [] call = "create" -> "created"
          [] call = "open" -> "opened"
          [] call = "rename" -> "renamed"}

\* C18 (as it holds): a move or duplicate command is suspended only where it
\* awaits: at the await of ensureFolderExists, which yields while the host
\* creates the folder and, whether or not a folder is created and whether or
\* not the host failed, once more before the command goes on or catches the
\* error; at the host's file read, file create and file rename; and, in a
\* duplicate, at the opening of the copy.  From one of them to the next the
\* command runs in one step, which is of no other command and of no settings
\* edit.
C18_SuspendsOnlyAtAwaitedHostCalls ==
  [][\A tk \in TaskIds :
       /\ task'[tk].pc \in {"idle", "ensureFolder"}
                              \cup UNION { SuspendedAt(call) : call \in HostCalls }
       /\ task'[tk] # task[tk] => RunsAlone(tk)]_vars

\* C18 (as stated): control is yielded only at the host calls for folder
\* creation, file read, file create and file rename.
C18_SuspendsOnlyAtFourHostCalls ==
  [][\A tk \in TaskIds :
       /\ task'[tk].pc \in {"idle"}
                              \cup UNION { SuspendedAt(call) :
                                             call \in {"createFolder", "read",
                                                       "create", "rename"} }
       /\ task'[tk] # task[tk] => RunsAlone(tk)]_vars

\* A duplicate is suspended at the opening of its copy while a move to the
\* root, for which no folder is ever created, is suspended at the await of
\* ensureFolderExists.
C18_Witness ==
  \E t1, t2 \in TaskIds :
    /\ task[t1].pc = "open"
    /\ task[t2].pc = "ensureFolder"
    /\ task[t2].kind = "move"
    /\ task[t2].folder = << >>

(***************************************************************************)
(* Properties of the commands.                                             *)
(***************************************************************************)
\* The positions of the separators of a path.
Separators(path) == { i \in 1..Len(path) : path[i] = "/" }

\* The greatest element of a non-empty set of numbers.
Greatest(S) == CHOOSE x \in S : \A y \in S : y <= x

\* The path of a file one directory level up: the file name under the folder
\* of the file's folder, the bare name for a file of a top-level folder, and
\* the path itself for a file of the root.
OneLevelUp(path) ==
  IF Separators(path) = {}
  THEN path
  ELSE LET last == Greatest(Separators(path))
           name == SubSeq(path, last + 1, Len(path))
           above == Separators(path) \ {last}
       IN  IF above = {} THEN name
           ELSE SubSeq(path, 1, Greatest(above)) \o name

\* C19: the move-to-parent command moves the active file up exactly one
\* directory level.  It starts a move without prefix of the active file to
\* the folder above the file's folder, the root for a file of a top-level
\* folder and for a file of the root: the file's name in that folder is the
\* path one level up, A/file for a file at A/B/file.  When the move goes on,
\* its destination is the file's name in the folder it was started with; when
\* that path is free the host's rename is called with it, and its completion
\* puts the file there.  When the destination is taken, as it is for a file of
\* the root, no file changes and no rename is called.
C19_MoveToParentGoesUpOneLevel ==
  [][/\ (CommandInvoked /\ invoked' = << "move-to-parent" >> /\ active' \in 1..Len(files)) =>
          /\ files' = files
          /\ folders' = folders
          /\ lastDest' = lastDest
          /\ \E tk \in TaskIds :
               /\ task[tk].pc = "idle"
               /\ task'[tk].pc \in {"ensureFolder", "createFolder"}
               /\ task'[tk].kind = "move"
               /\ task'[tk].file = active'
               /\ ~task'[tk].addPrefix
               /\ JoinPath(task'[tk].folder, NameOfPath(files[active'].path))
                    = OneLevelUp(files[active'].path)
     /\ \A tk \in TaskIds :
          /\ (task[tk].pc = "ensureFolder" /\ task'[tk] # task[tk]
                /\ task[tk].kind = "move" /\ ~task[tk].addPrefix) =>
               LET dest == JoinPath(task[tk].folder,
                                    NameOfPath(files[task[tk].file].path))
               IN  /\ MoveDestinationComputed
                   /\ lastDest'.path = dest
                   /\ files' = files
                   /\ folders' = folders
                   /\ IF dest \in Items(files, folders)
                      THEN task'[tk] = IdleTask
                      ELSE /\ task'[tk].pc = "rename"
                           /\ task'[tk].file = task[tk].file
                           /\ task'[tk].newPath = dest
          /\ (task[tk].pc = "rename" /\ task'[tk].pc # "rename" /\ ~host'.threw) =>
               /\ files'[task[tk].file].path = task[tk].newPath
               /\ \A i \in 1..Len(files) :
                    i # task[tk].file => files'[i].path = files[i].path]_vars

\* The one command run so far is move-to-parent, and it has moved the file
\* that was at Archive/b/a.md to Archive/a.md.
C19_Witness ==
  /\ invoked = << "move-to-parent" >>
  /\ budget = 1
  /\ notice = [kind |-> "moved", path |-> << "A", "r", "c", "h", "i", "v", "e" >>]
  /\ \E i \in 1..Len(files) :
       /\ files[i].content = 5
       /\ InitPaths[5] = << "A", "r", "c", "h", "i", "v", "e", "/", "b", "/",
                            "a", ".", "m", "d" >>
       /\ files[i].path = << "A", "r", "c", "h", "i", "v", "e", "/", "a", ".", "m", "d" >>

\* The file name a command makes of a file's name under a prefix flag: the
\* prefix transform of the name at the time t when the flag is set, and the
\* name as it is when it is not.
NameUnderFlag(original, flag, t) ==
  IF flag THEN processFilenameWithPrefix(original, TRUE, t) ELSE original

\* C20: the command registered for a mapping acts on the values the mapping
\* has when the command is invoked.  With the copy flag set it starts a
\* duplicate of the active file into the mapping's folder, which leaves every
\* file there is where it is; else it starts a move to that folder.  Either
\* way the command carries the mapping's prefix flag, and the file name of its
\* destination is the prefix transform of the active file's name when the
\* flag is set and the name itself when it is not.
C20_MappingCommandUsesCurrentValues ==
  [][/\ \A id \in DOMAIN commands :
          (CommandInvoked /\ invoked' = CommandId(id) /\ active' \in 1..Len(files)) =>
            LET mapping == mobj[commands[id]]
                started == { tk \in TaskIds : task[tk].pc = "idle" /\ task'[tk].pc # "idle" }
            IN  /\ files' = files
                /\ lastDest' = lastDest
                /\ started # {}
                /\ \A tk \in started :
                     /\ task'[tk].kind = IF mapping.copyInsteadOfMove
                                         THEN "duplicate" ELSE "move"
                     /\ task'[tk].folder = mapping.folderPath
                     /\ task'[tk].addPrefix = mapping.addCepochPrefix
                     /\ task'[tk].file = active'
     /\ \A tk \in TaskIds :
          /\ IssuesCreate(tk) =>
               /\ task[tk].pc = "readDone"
               /\ task'[tk].folder = task[tk].folder
               /\ task'[tk].procName
                    = NameUnderFlag(NameOfPath(files[task[tk].file].path),
                                    task[tk].addPrefix, now')
          /\ (task[tk].pc = "ensureFolder" /\ task'[tk] # task[tk]
                /\ task[tk].kind = "move") =>
               /\ MoveDestinationComputed
               /\ lastDest'.folder = task[tk].folder
               /\ lastDest'.fileName
                    = NameUnderFlag(NameOfPath(files[task[tk].file].path),
                                    task[tk].addPrefix, now')
          /\ (task[tk].kind = "duplicate" /\ task'[tk] # task[tk]) =>
               \A i \in 1..Len(files) : files'[i] = files[i]]_vars

\* The copy flag of a mapping was switched on and, the save of that edit not
\* yet through, the mapping's command was run: a duplicate into the mapping's
\* folder is in flight.
C20_Witness ==
  /\ budget = 2
  /\ pending.plain > 0
  /\ \E id \in DOMAIN commands, tk \in TaskIds :
       /\ invoked = CommandId(id)
       /\ mobj[commands[id]].copyInsteadOfMove
       /\ task[tk].pc \in {"createFolder", "ensureFolder", "read", "create", "open"}
       /\ task[tk].kind = "duplicate"
       /\ task[tk].folder = mobj[commands[id]].folderPath

\* ensureFolderExists returns without an error in this step, the command tk
\* that awaits it going on in a later one: at once, no folder being created,
\* or when createFolder completes.
EnsureFolderReturns(tk) ==
  /\ task'[tk].pc = "ensureFolder"
  /\ \/ task[tk].pc = "idle"
     \/ task[tk].pc = "createFolder" /\ ~host'.threw

\* C21: createFolder is issued only for a path that is not empty and that
\* the vault does not hold when ensureFolderExists looks it up; the folders
\* of the vault change only when a createFolder call completes without an
\* error, which adds the path, not in the vault until then, and removes
\* nothing; the root is never made a folder; and when ensureFolderExists
\* returns without an error for a path that is not empty, the vault holds an
\* item at the path.
C21_FolderCreatedOnlyWhenMissing ==
  [][/\ \A tk \in TaskIds :
          /\ (task[tk].pc # "createFolder" /\ task'[tk].pc = "createFolder") =>
               /\ task'[tk].folder # << >>
               /\ task'[tk].folder \notin Items(files, folders)
          /\ (EnsureFolderReturns(tk) /\ task[tk].pc = "createFolder") =>
               /\ task[tk].folder \notin Items(files, folders)
               /\ task[tk].folder \in folders'
               /\ folders \subseteq folders'
          /\ EnsureFolderReturns(tk) =>
               \/ task'[tk].folder = << >>
               \/ task'[tk].folder \in Items(files', folders')
     /\ folders' # folders =>
          \E tk \in TaskIds : EnsureFolderReturns(tk) /\ task[tk].pc = "createFolder"
     /\ << >> \notin folders']_vars

\* A command found its folder missing, createFolder made it, no file being
\* in it, and the command went on to its next host call.
C21_Witness ==
  /\ host.call = "createFolder"
  /\ ~host.threw
  /\ \E tk \in TaskIds :
       /\ tk = host.tk
       /\ task[tk].pc \in {"read", "rename"}
       /\ task[tk].folder \in folders
       /\ \A i \in 1..Len(files) : task[tk].folder \notin ParentFolders(files[i].path)

\* The renameFile call of the command tk completes without an error in this
\* step.
MoveSucceeds(tk) ==
  /\ task[tk].pc = "rename"
  /\ task'[tk] # task[tk]
  /\ ~host'.threw

\* C22 (as stated): a move that succeeds changes the path of the moved file
\* and nothing else of the vault: the file, with its content, is at the
\* destination and no file is at its old path; every other file keeps path
\* and content, and the folders are the same.  Whatever the commands do, in
\* whatever order, the vault never has fewer files than before and every
\* file keeps its content.
C22_MoveChangesOnlyThePath ==
  [][/\ \A tk \in TaskIds :
          MoveSucceeds(tk) =>
            LET moved == task[tk].file
            IN  /\ Len(files') = Len(files)
                /\ files'[moved] = [path |-> task[tk].newPath,
                                    content |-> files[moved].content]
                /\ files[moved].path \notin FilePaths(files')
                /\ \A i \in 1..Len(files) : i # moved => files'[i] = files[i]
                /\ folders' = folders
     /\ Len(files') >= Len(files)
     /\ \A i \in 1..Len(files) : files'[i].content = files[i].content
     /\ (\A i \in 1..Len(files) : files'[i] = files[i])
          \/ \E tk \in TaskIds : MoveSucceeds(tk)]_vars

\* C22 (as it holds): a move that succeeds changes the path of the moved
\* file and no other path: the file, with its content, is at the destination
\* and no file is at its old path, every other file keeps its path, and the
\* folders are the same.  The content of another file is as it was or is the
\* same note with the links to the moved file updated by the host.  Whatever
\* the commands do, in whatever order, the vault never has fewer files than
\* before, every file holds the text of the note it held, and a step that
\* changes a file there was is the completion of a move.
C22_MoveChangesThePathAndLinksToIt ==
  [][/\ \A tk \in TaskIds :
          MoveSucceeds(tk) =>
            LET moved == task[tk].file
            IN  /\ Len(files') = Len(files)
                /\ files'[moved] = [path |-> task[tk].newPath,
                                    content |-> files[moved].content]
                /\ files[moved].path \notin FilePaths(files')
                /\ \A i \in 1..Len(files) :
                     i # moved =>
                       /\ files'[i].path = files[i].path
                       /\ files'[i].content
                            \in {files[i].content, LinksUpdated(files[i].content)}
                /\ folders' = folders
     /\ Len(files') >= Len(files)
     /\ \A i \in 1..Len(files) :
          NoteOf(files'[i].content) = NoteOf(files[i].content)
     /\ (\A i \in 1..Len(files) : files'[i] = files[i])
          \/ \E tk \in TaskIds : MoveSucceeds(tk)]_vars

\* A move went through in a vault of two files: the moved file is away from
\* the path it started at and has the content it had; the other one is
\* where it was, and the links in it to the moved file were updated.
C22_Witness ==
  /\ host.call = "rename"
  /\ ~host.threw
  /\ notice.kind = "moved"
  /\ Len(files) = 2
  /\ \E moved, other \in 1..Len(files) :
       /\ moved # other
       /\ files[moved].content \in 1..Len(InitPaths)
       /\ files[moved].path # InitPaths[files[moved].content]
       /\ files[other].content = LinksUpdated(NoteOf(files[other].content))
       /\ files[other].path = InitPaths[NoteOf(files[other].content)]

\* The create call of the command tk completes without an error in this
\* step.
DuplicateCreates(tk) ==
  /\ task[tk].pc = "create"
  /\ task'[tk] # task[tk]
  /\ ~host'.threw

\* C23: a duplicate whose create call succeeds adds one file to the vault,
\* at the destination and with the content the command read from the active
\* file, the content that file had when it was read; the source and every
\* other file there was keep path and content.  Nothing else adds a file.
\* The notice of success is shown only by a command that has created its
\* file, which holds the text the command read, the links in it updated if
\* a move has completed since.
C23_DuplicateAddsOneFile ==
  [][/\ \A tk \in TaskIds :
          /\ DuplicateCreates(tk) =>
               /\ Len(files') = Len(files) + 1
               /\ files'[Len(files')] = [path |-> task[tk].newPath,
                                         content |-> task[tk].content]
               /\ \A i \in 1..Len(files) : files'[i] = files[i]
               /\ folders' = folders
               /\ notice' = notice
          /\ (task[tk].pc = "read" /\ task'[tk] # task[tk] /\ ~host'.threw) =>
               /\ task'[tk].content = files[task[tk].file].content
               /\ files' = files
          /\ IssuesCreate(tk) =>
               /\ task[tk].pc = "readDone"
               /\ task'[tk].content = task[tk].content
               /\ files' = files
          /\ (task[tk].pc = "opened" /\ task'[tk] # task[tk]) =>
               /\ notice' = [kind |-> "duplicated", path |-> task[tk].folder]
               /\ task[tk].file \in 1..Len(files)
               /\ NoteOf(files[task[tk].file].content) = NoteOf(task[tk].content)
               /\ files' = files
     /\ Len(files') # Len(files) => \E tk \in TaskIds : DuplicateCreates(tk)
     /\ (notice'.kind = "duplicated" /\ notice' # notice) =>
          \E tk \in TaskIds : task[tk].pc = "opened" /\ task'[tk].pc = "idle"]_vars

\* A duplicate went through: the notice of success is up, and the vault
\* holds the source at the path it started at and a later file of the same
\* content.
C23_Witness ==
  /\ host.call = "open"
  /\ ~host.threw
  /\ notice.kind = "duplicated"
  /\ \E source, copy \in 1..Len(files) :
       /\ source < copy
       /\ files[copy].content = files[source].content
       /\ files[source].path = InitPaths[NoteOf(files[source].content)]
       /\ active = copy

\* The existence checks the conflict loop of the command tk made in this
\* step: counter starts at 1 and goes up by one with every check that finds
\* the candidate taken, so at the exit it is the number of checks made, the
\* last one, which found the candidate free, included.
ExistenceChecks(tk) == task'[tk].counter

\* C24: the conflict loop of duplicateFileToFolder comes to an end, and it
\* makes no more existence checks than there are occupied paths in the
\* vault, plus one; all but the last of them find their candidate taken,
\* the last finds it free.
C24_ConflictLoopChecksBounded ==
  [][\A tk \in TaskIds :
       IssuesCreate(tk) =>
         /\ ExistenceChecks(tk) >= 1
         /\ ExistenceChecks(tk) <= Cardinality(Items(files, folders)) + 1
         /\ task'[tk].newPath \notin Items(files, folders)]_vars

\* The loop found the plain name and the first numbered name taken and the
\* second numbered name free: three checks in a vault of two occupied paths.
C24_Witness ==
  \E tk \in TaskIds :
    /\ task[tk].pc = "create"
    /\ task[tk].counter = 3
    /\ Cardinality(Items(files, folders)) = 2

\* The command tk issues the host's create or rename call in this step.
IssuesCreateOrRename(tk) ==
  /\ task'[tk].pc \in {"create", "rename"}
  /\ task[tk].pc # task'[tk].pc

\* A command looks up its destination in this step: lastDest counts them.
ChecksDestination == lastDest'.n = lastDest.n + 1

\* C25: a command issues create or rename in the very step in which it
\* looked the destination up, no suspension in between, so that the path is
\* unoccupied when the call is issued; and a step that looks a destination
\* up and finds it free issues the call for it, while one that finds it
\* taken issues none.
C25_CheckAndCallAreOneStep ==
  [][/\ \A tk \in TaskIds :
          IssuesCreateOrRename(tk) =>
            /\ ChecksDestination
            /\ lastDest'.path = task'[tk].newPath
            /\ task'[tk].newPath \notin Items(files', folders')
     /\ ChecksDestination =>
          IF lastDest'.path \in Items(files', folders')
          THEN \A tk \in TaskIds : ~IssuesCreateOrRename(tk)
          ELSE \E tk \in TaskIds :
                 /\ IssuesCreateOrRename(tk)
                 /\ task'[tk].newPath = lastDest'.path
                 /\ task'[tk].pc = IF lastDest'.op = "move" THEN "rename" ELSE "create"]_vars

\* Two commands overlap: each found the same destination free and issued
\* its call for it, and neither call has completed.
C25_Witness ==
  \E tk, other \in TaskIds :
    /\ tk # other
    /\ task[tk].pc \in {"create", "rename"}
    /\ task[other].pc \in {"create", "rename"}
    /\ task[tk].newPath = task[other].newPath
    /\ task[tk].newPath \notin Items(files, folders)

\* The mappings of a list other than one mapping, in the order of the list.
RECURSIVE Without(_, _)
Without(mappings, mapping) ==
  IF mappings = << >> THEN << >>
  ELSE IF Head(mappings) = mapping THEN Without(Tail(mappings), mapping)
       ELSE << Head(mappings) >> \o Without(Tail(mappings), mapping)

\* C26: a click on the Delete button of a row removes the mapping of that
\* row from the settings and leaves every other mapping in, also when the
\* click comes before the save of an earlier delete is through and the rows
\* are drawn again.
C26_DeleteRemovesTheClickedMapping ==
  [][pending'.redisplay = pending.redisplay + 1 =>
       folderMappings' = Without(folderMappings, ui'.clicked)]_vars

\* The command that starts in this step is a move or a duplicate of the
\* active file, as kind says, to the folder, under the prefix flag.
CommandActsAs(kind, folder, addPrefix) ==
  LET started == { tk \in TaskIds : task[tk].pc = "idle" /\ task'[tk].pc # "idle" }
  IN  /\ started # {}
      /\ \A tk \in started :
           /\ task'[tk].kind = kind
           /\ task'[tk].folder = folder
           /\ task'[tk].addPrefix = addPrefix
           /\ task'[tk].file = active'

\* C27: the choice of an entry of the quick move menu acts under the flags
\* of the mapping the entry was built from: a duplicate to the mapping's
\* folder when its copy flag is set, else a move there, with the prefix
\* exactly when its prefix flag is set; the choice of "Vault Root" is a move
\* to the root without prefix.
C27_MenuEntryUsesItsMapping ==
  [][(modal.kind = "move" /\ ModalChosen /\ active' \in 1..Len(files)) =>
       IF selected'.kind = "root"
       THEN CommandActsAs("move", << >>, FALSE)
       ELSE LET mapping == mobj[selected'.mapping]
            IN  CommandActsAs(IF mapping.copyInsteadOfMove THEN "duplicate" ELSE "move",
                              mapping.folderPath, mapping.addCepochPrefix)]_vars

====
